---- MODULE Spec2Model ----
(***************************************************************************)
(* Model of the dental-ml-retraining repository:                           *)
(*   - auto_retrain_model.py : the retraining pipeline (main, save_model,  *)
(*     export_training_data, load_initial_training_data, prepare_features) *)
(*   - ml_prediction_service.py : the prediction service (load_model,      *)
(*     encode_feature, predict)                                            *)
(***************************************************************************)
EXTENDS Integers, Sequences, FiniteSets, TLC

(***************************************************************************)
(* Bounds of the model                                                     *)
(***************************************************************************)
\* number of retraining runs one behaviour may start
MaxRuns == 2
\* how far the number of unconsumed store documents may lie from the threshold
Spread == 1
\* how many store documents may repeat another document's appointmentId
MaxDup == 1
\* longest corpus handed to drop_duplicates / prepare_features on its own
MaxCorpusLen == 3
\* most rows of a bootstrap file loaded on its own
MaxCsvRows == 3
\* the salts of str hash() a service process may draw are 0..MaxHashSalt
MaxHashSalt == 1
\* most full batches the documents handed to mark_data_as_used may fill
MaxBatches == 2
\* most unconsumed documents in the collection the export utility reads
MaxExportDocs == 4

(***************************************************************************)
(* Program constants                                                       *)
(***************************************************************************)
MIN_TRAINING_SAMPLES == 50
\* the Firestore limit of updates in one batch
BATCH_LIMIT == 500

(***************************************************************************)
(* Strings.  Python compares and sorts str values by code point; the       *)
(* categorical values the model uses are listed with their code points.    *)
(***************************************************************************)
Vocabulary ==
  { "", "Cleaning", "cleaning", "extraction", "root canal", "Adult", "Child",
    "Monday", "Tuesday", "Wednesday", "Thursday", "Friday", "Saturday",
    "Sunday", "Morning", "Afternoon", "Evening", "filling", "crown",
    "checkup", "Root Canal", "checkup crown", "whitening" }

CodePoints(s) ==
  CASE s = "" -> <<>>
    [] s = "Cleaning" -> <<67, 108, 101, 97, 110, 105, 110, 103>>
    [] s = "cleaning" -> <<99, 108, 101, 97, 110, 105, 110, 103>>
    [] s = "extraction" -> <<101, 120, 116, 114, 97, 99, 116, 105, 111, 110>>
    [] s = "root canal" -> <<114, 111, 111, 116, 32, 99, 97, 110, 97, 108>>
    [] s = "Adult" -> <<65, 100, 117, 108, 116>>
    [] s = "Child" -> <<67, 104, 105, 108, 100>>
    [] s = "Monday" -> <<77, 111, 110, 100, 97, 121>>
    [] s = "Tuesday" -> <<84, 117, 101, 115, 100, 97, 121>>
    [] s = "Wednesday" -> <<87, 101, 100, 110, 101, 115, 100, 97, 121>>
    [] s = "Thursday" -> <<84, 104, 117, 114, 115, 100, 97, 121>>
    [] s = "Friday" -> <<70, 114, 105, 100, 97, 121>>
    [] s = "Saturday" -> <<83, 97, 116, 117, 114, 100, 97, 121>>
    [] s = "Sunday" -> <<83, 117, 110, 100, 97, 121>>
    [] s = "Morning" -> <<77, 111, 114, 110, 105, 110, 103>>
    [] s = "Afternoon" -> <<65, 102, 116, 101, 114, 110, 111, 111, 110>>
    [] s = "Evening" -> <<69, 118, 101, 110, 105, 110, 103>>
    [] s = "filling" -> <<102, 105, 108, 108, 105, 110, 103>>
    [] s = "crown" -> <<99, 114, 111, 119, 110>>
    [] s = "checkup" -> <<99, 104, 101, 99, 107, 117, 112>>
    [] s = "Root Canal" -> <<82, 111, 111, 116, 32, 67, 97, 110, 97, 108>>
    [] s = "checkup crown" ->
         <<99, 104, 101, 99, 107, 117, 112, 32, 99, 114, 111, 119, 110>>
    [] s = "whitening" -> <<119, 104, 105, 116, 101, 110, 105, 110, 103>>

\* a < b for two sequences of code points (lexicographic, a proper prefix first)
RECURSIVE CodesLess(_, _)
CodesLess(a, b) ==
  IF b = <<>> THEN FALSE
  ELSE IF a = <<>> THEN TRUE
  ELSE IF Head(a) # Head(b) THEN Head(a) < Head(b)
  ELSE CodesLess(Tail(a), Tail(b))

StrLess(s, t) == CodesLess(CodePoints(s), CodePoints(t))

\* str.lower() on code points: A..Z (65..90) move to a..z
LowerCodes(cs) ==
  [i \in 1..Len(cs) |-> IF cs[i] >= 65 /\ cs[i] <= 90 THEN cs[i] + 32 ELSE cs[i]]

\* str.lower() of each string of the vocabulary
LowerTable ==
  [s \in Vocabulary |->
     CHOOSE t \in Vocabulary : CodePoints(t) = LowerCodes(CodePoints(s))]

Lower(s) == LowerTable[s]

(***************************************************************************)
(* Training records                                                        *)
(***************************************************************************)
\* the feature values the stored appointments carry, as they are stored
FeatureRows ==
  << [procedureType |-> "Cleaning",   patientType |-> "Adult",
      dayOfWeek |-> "Monday",    timePeriod |-> "Morning"],
     [procedureType |-> "extraction", patientType |-> "Child",
      dayOfWeek |-> "Friday",    timePeriod |-> "Afternoon"],
     [procedureType |-> "root canal", patientType |-> "Adult",
      dayOfWeek |-> "Wednesday", timePeriod |-> "Evening"] >>

FeaturesOf(i) == FeatureRows[(i % Len(FeatureRows)) + 1]

\* one document of the mlTrainingData collection; appointmentId 0 = field absent
StoreDoc(i, apptId, used) ==
  [id |-> i, appointmentId |-> apptId, usedForTraining |-> used,
   procedureType |-> FeaturesOf(i).procedureType,
   patientType   |-> FeaturesOf(i).patientType,
   dayOfWeek     |-> FeaturesOf(i).dayOfWeek,
   timePeriod    |-> FeaturesOf(i).timePeriod]

\* a collection with one consumed document followed by n unconsumed ones, the
\* last dup of which repeat the appointmentId of an earlier unconsumed document
StoreOf(n, dup) ==
  IF n = 0 THEN <<>>
  ELSE [i \in 1..(n + 1) |->
          IF i = 1 THEN StoreDoc(1, 0, TRUE)
          ELSE LET k == i - 1 IN
               IF k > n - dup THEN StoreDoc(i, 100 + 2 * (k - (n - dup)), FALSE)
               ELSE IF k % 2 = 0 THEN StoreDoc(i, 100 + k, FALSE)
               ELSE StoreDoc(i, 0, FALSE)]

StoreSizes ==
  {0, 1} \cup ((MIN_TRAINING_SAMPLES - Spread)..(MIN_TRAINING_SAMPLES + Spread))

Stores == { StoreOf(n, dup) : n \in StoreSizes, dup \in 0..MaxDup } 

(***************************************************************************)
(* export_training_data: the unconsumed documents as training records      *)
(***************************************************************************)
RecordOfDoc(doc) ==
  [appointmentId |-> IF doc.appointmentId # 0 THEN <<"id", doc.appointmentId>>
                     ELSE <<"firebase_", doc.id>>,
   procedureType |-> Lower(doc.procedureType),
   patientType   |-> doc.patientType,
   dayOfWeek     |-> doc.dayOfWeek,
   timePeriod    |-> doc.timePeriod,
   origin        |-> "firebase"]

Unused(docs) == SelectSeq(docs, LAMBDA d : ~d.usedForTraining)

export_training_data(docs, queryFails) ==
  IF queryFails THEN <<>>
  ELSE [i \in 1..Len(Unused(docs)) |-> RecordOfDoc(Unused(docs)[i])]

(***************************************************************************)
(* mark_data_as_used: the query and the commit of a batch                  *)
(***************************************************************************)
Ids(docs) == [i \in 1..Len(docs) |-> docs[i].id]

Range(q) == { q[i] : i \in 1..Len(q) }

\* .where('usedForTraining', '==', False).limit(n).stream(), in document order
QueryUnused(docs, n) ==
  IF Len(Unused(docs)) <= n THEN Unused(docs) ELSE SubSeq(Unused(docs), 1, n)

\* batch.commit(): the documents of the batch get usedForTraining = True
Commit(docs, batch) ==
  [i \in 1..Len(docs) |->
     IF docs[i].id \in Range(batch)
     THEN [docs[i] EXCEPT !.usedForTraining = TRUE]
     ELSE docs[i]]

(***************************************************************************)
(* Bootstrap files                                                         *)
(***************************************************************************)
SYNTHETIC_CSV_FILES ==
  << "durations-synthetic-1.csv", "durations-synthetic-2.csv",
     "durations-synthetic-3.csv" >>

ORIGINAL_CSV == "dental_procedure_durations_500.csv"

CsvNames == { SYNTHETIC_CSV_FILES[i] : i \in 1..Len(SYNTHETIC_CSV_FILES) }
              \cup { ORIGINAL_CSV }

\* a file: whether it exists, its number of rows, whether it has an
\* appointment_id column, and the rows (0-based) whose cell of that column
\* is empty
NoCsv == [exists |-> FALSE, rows |-> 0, hasId |-> FALSE, blank |-> {}]
CsvFile(n, withId) == [exists |-> TRUE, rows |-> n, hasId |-> withId, blank |-> {}]
CsvFileWithBlanks(n, blank) ==
  [exists |-> TRUE, rows |-> n, hasId |-> TRUE, blank |-> blank]

\* row idx (0-based, the dataframe index) of a file as a training record.
\* row.get('appointment_id', ...) finds the column: an empty cell is read as
\* NaN and str() of it is 'nan'; the generated identifier is used only when
\* the file has no such column
load_csv_row(file, source_name, idx) ==
  [appointmentId |-> IF file.hasId
                     THEN (IF idx \in file.blank THEN <<"nan", 0>>
                           ELSE <<"id", idx + 1>>)
                     ELSE <<source_name, idx>>,
   procedureType |-> Lower(FeaturesOf(idx).procedureType),
   patientType   |-> FeaturesOf(idx).patientType,
   dayOfWeek     |-> FeaturesOf(idx).dayOfWeek,
   timePeriod    |-> FeaturesOf(idx).timePeriod,
   origin        |-> "csv"]

load_csv_file(file, source_name) ==
  IF file.exists
  THEN [i \in 1..file.rows |-> load_csv_row(file, source_name, i - 1)]
  ELSE <<>>

RECURSIVE LoadSynthetic(_, _)
LoadSynthetic(files, k) ==
  IF k = 0 THEN <<>>
  ELSE LoadSynthetic(files, k - 1)
       \o load_csv_file(files[SYNTHETIC_CSV_FILES[k]], SYNTHETIC_CSV_FILES[k])

\* variant that reads the legacy file after the synthetic ones
load_initial_training_data_all(files) ==
  LoadSynthetic(files, Len(SYNTHETIC_CSV_FILES))
  \o (IF files[ORIGINAL_CSV].exists
      THEN load_csv_file(files[ORIGINAL_CSV], "original CSV")
      ELSE <<>>)

load_initial_training_data(files) ==
  LET synthetic_loaded ==
        \E k \in 1..Len(SYNTHETIC_CSV_FILES) : files[SYNTHETIC_CSV_FILES[k]].exists
  IN IF synthetic_loaded THEN LoadSynthetic(files, Len(SYNTHETIC_CSV_FILES))
     ELSE IF files[ORIGINAL_CSV].exists
          THEN load_csv_file(files[ORIGINAL_CSV], "original CSV")
          ELSE <<>>

\* the layouts of the bootstrap files the runs start from
CsvLayout(f1, f2, f3, orig) ==
  [n \in CsvNames |->
     IF n = SYNTHETIC_CSV_FILES[1] THEN f1
     ELSE IF n = SYNTHETIC_CSV_FILES[2] THEN f2
     ELSE IF n = SYNTHETIC_CSV_FILES[3] THEN f3 ELSE orig]

CsvLayouts ==
  { CsvLayout(NoCsv, NoCsv, NoCsv, NoCsv),
    CsvLayout(NoCsv, NoCsv, NoCsv, CsvFile(MIN_TRAINING_SAMPLES - 1, FALSE)),
    CsvLayout(CsvFile(MIN_TRAINING_SAMPLES - 20, FALSE), NoCsv,
              CsvFile(20, FALSE), CsvFile(MIN_TRAINING_SAMPLES, FALSE)),
    CsvLayout(CsvFile(MIN_TRAINING_SAMPLES - 20, TRUE), CsvFile(20, TRUE),
              NoCsv, NoCsv) }

(***************************************************************************)
(* main: source selection and deduplication                                *)
(***************************************************************************)
\* variant of the selection that appends the bootstrap rows to the observed ones
SelectSourceConcat(real_training_data, files) ==
  real_training_data \o load_initial_training_data(files)

\* main, lines 324-338
SelectSource(real_training_data, files) ==
  IF Len(real_training_data) > 0 THEN real_training_data
  ELSE load_initial_training_data(files)

\* variant of the deduplication that keys on the feature values
drop_duplicates_by_features(rows) ==
  LET key(row) == <<row.procedureType, row.patientType, row.dayOfWeek,
                    row.timePeriod>>
      keep(i) == \A j \in 1..(i - 1) : key(rows[j]) # key(rows[i])
      F[i \in 0..Len(rows)] ==
        IF i = 0 THEN <<>>
        ELSE IF keep(i) THEN Append(F[i - 1], rows[i]) ELSE F[i - 1]
  IN F[Len(rows)]

\* df.drop_duplicates(subset=['appointmentId'], keep='first')
drop_duplicates(rows) ==
  LET keep(i) == \A j \in 1..(i - 1) : rows[j].appointmentId # rows[i].appointmentId
      F[i \in 0..Len(rows)] ==
        IF i = 0 THEN <<>>
        ELSE IF keep(i) THEN Append(F[i - 1], rows[i]) ELSE F[i - 1]
  IN F[Len(rows)]

(***************************************************************************)
(* prepare_features: one LabelEncoder per categorical column               *)
(***************************************************************************)
FeatureColumns == {"procedureType", "patientType", "dayOfWeek", "timePeriod"}

\* LabelEncoder.fit: classes_ is the sorted sequence of the distinct values
RECURSIVE SortedClasses(_)
SortedClasses(S) ==
  IF S = {} THEN <<>>
  ELSE LET m == CHOOSE x \in S : \A y \in S \ {x} : StrLess(x, y)
       IN <<m>> \o SortedClasses(S \ {m})

ColumnValues(rows, col) == { rows[i][col] : i \in 1..Len(rows) }

prepare_features(rows) ==
  [col \in FeatureColumns |-> SortedClasses(ColumnValues(rows, col))]

\* LabelEncoder.transform of one value: its index in classes_, -1 when the
\* value is unseen (transform raises ValueError)
Transform(classes, v) ==
  IF \E i \in 1..Len(classes) : classes[i] = v
  THEN (CHOOSE i \in 1..Len(classes) : classes[i] = v) - 1
  ELSE -1

\* train_test_split(test_size=0.2): ceil(0.2 n) test rows, the rest train
train_model(n) ==
  [train_samples |-> n - ((n + 4) \div 5), test_samples |-> (n + 4) \div 5]

(***************************************************************************)
(* Files: the content of MODEL_PATH and of BACKUP_MODEL_PATH               *)
(***************************************************************************)
NoEncoders == [col \in FeatureColumns |-> <<>>]
NoMetrics == [train_samples |-> 0, test_samples |-> 0]

\* no file at the path
Absent == [kind |-> "absent", version |-> 0, encoders |-> NoEncoders,
           metrics |-> NoMetrics]
\* a file cut short by a failed write: it exists and does not unpickle
Partial == [kind |-> "partial", version |-> 0, encoders |-> NoEncoders,
            metrics |-> NoMetrics]
\* the pickled dict save_model writes (model_data)
Artifact(version, encoders, metrics) ==
  [kind |-> "dict", version |-> version, encoders |-> encoders,
   metrics |-> metrics]

Exists(file) == file.kind # "absent"
Readable(file) == file.kind = "dict"

\* artifacts published by earlier runs, from bootstrap rows
OlderArtifact ==
  Artifact(1, prepare_features(load_csv_file(CsvFile(2, FALSE), "original CSV")),
           train_model(MIN_TRAINING_SAMPLES))
OldArtifact ==
  Artifact(2, prepare_features(load_csv_file(CsvFile(3, FALSE), "original CSV")),
           train_model(MIN_TRAINING_SAMPLES + 1))

\* an artifact of an earlier round whose corpus held other values
StaleArtifact ==
  Artifact(2,
           prepare_features(
             << [procedureType |-> "filling", patientType |-> "Adult",
                 dayOfWeek |-> "Saturday", timePeriod |-> "Morning"],
                [procedureType |-> "checkup", patientType |-> "Adult",
                 dayOfWeek |-> "Monday", timePeriod |-> "Morning"] >>),
           train_model(MIN_TRAINING_SAMPLES))

\* <<MODEL_PATH, BACKUP_MODEL_PATH>> before the first run
InitialFiles ==
  { <<Absent, Absent>>, <<OldArtifact, Absent>>, <<OldArtifact, OlderArtifact>>,
    <<OldArtifact, Partial>>, <<StaleArtifact, Absent>> }

\* shutil.copy(src, dst): how it ends, and what dst holds afterwards.
\*   ok          : dst is a copy of src
\*   before_open : it raises before dst is opened (src unreadable, dst not
\*                 writable); dst is as it was
\*   partial     : it raises while the data is written; dst is cut short
\*   after_data  : copyfile is complete and copymode raises; dst has the data
CopyOutcomes == {"ok", "before_open", "partial", "after_data"}

CopyResult(outcome, src, dst) ==
  CASE outcome \in {"ok", "after_data"} -> src
    [] outcome = "before_open" -> dst
    [] outcome = "partial" -> Partial

\* open(MODEL_PATH, 'wb') + pickle.dump: open raises (the file is as it was)
\* or open truncates and dump raises (the file is cut short)
WriteOutcomes == {"ok", "open_failed", "dump_failed"}

WriteResult(outcome, data, dst) ==
  CASE outcome = "ok" -> data
    [] outcome = "open_failed" -> dst
    [] outcome = "dump_failed" -> Partial

(***************************************************************************)
(* State                                                                   *)
(***************************************************************************)
VARIABLES
  \* the retraining pipeline (auto_retrain_model.py)
  store,        \* the mlTrainingData collection, in query order
  csvFiles,     \* the bootstrap files: name -> [exists, rows, hasId]
  modelFile,    \* content of MODEL_PATH (smart_scheduler.pkl)
  backupFile,   \* content of BACKUP_MODEL_PATH (smart_scheduler_backup.pkl)
  clock,        \* datetime.now(), one tick per artifact built
  runsStarted,  \* number of invocations of the retraining script so far
  run,          \* per invocation: position in main and its local variables
  \* the prediction service (ml_prediction_service.py)
  svc,            \* "stopped" or "running" (module imported, load_model done)
  model,          \* the global model
  label_encoders, \* the global label_encoders
  hashSalt,       \* the salt of str hash() in this process
  request,        \* the request handled last
  response,       \* the response to it
  modelOutput,    \* what model.predict did for that request
  proc,           \* the service process: what load_model read and returned,
                  \* and whether a request of this process has raised
  \* a function applied on its own to an input
  call

pipelineVars == <<store, csvFiles, modelFile, backupFile, clock, runsStarted, run>>
serviceVars ==
  <<svc, model, label_encoders, hashSalt, request, response, modelOutput, proc>>

vars == <<pipelineVars, serviceVars, call>>

\* the processes that may run main; serialized invocations all use the first
Runs == {1, 2}
Serial == {1}

\* an invocation that has not started.  Beside main's local variables it
\* records what the invocation found (preModel, preBackup), its inputs
\* (keyExists, initRaises, exportFailed, the *Fault fields) and how far it got
\* (selected: lines 324-338 ran; trained: lines 354-373 ran)
\* what retraining.log tells of the run before, kept until the gate of this
\* run: whether it ended without save_model returning True, and the records
\* it had fetched if so
NoPrevious == [unpublished |-> FALSE, real_training_data |-> <<>>]

IdleRun ==
  [pc |-> "idle", firebase_status |-> "unset",
   real_training_data |-> <<>>, all_training_data |-> <<>>, df |-> <<>>,
   encoders |-> NoEncoders, metrics |-> NoMetrics, model_data |-> Absent,
   result |-> "none", exit |-> -1, raised |-> "none",
   preModel |-> Absent, preBackup |-> Absent,
   keyExists |-> FALSE, initRaises |-> FALSE, exportFailed |-> FALSE,
   selected |-> FALSE, trained |-> FALSE,
   backupFault |-> "none", writeFault |-> "none", restoreFault |-> "none",
   previous |-> NoPrevious]

PipelineInit ==
  /\ store \in Stores
  /\ csvFiles \in CsvLayouts
  /\ \E files \in InitialFiles : modelFile = files[1] /\ backupFile = files[2]
  /\ clock = 2
  /\ runsStarted = 0
  /\ run = [r \in Runs |-> IdleRun]

(***************************************************************************)
(* initialize_firebase: "True", "None" (not configured) or "False" (error) *)
(***************************************************************************)
\* variant that reports a missing key as an error
initialize_firebase_strict(keyExists, raises) ==
  IF keyExists /\ ~raises THEN "True" ELSE "False"

initialize_firebase(keyExists, raises) ==
  IF keyExists THEN (IF raises THEN "False" ELSE "True") ELSE "None"

(***************************************************************************)
(* main, lines 309-313: start of an invocation                             *)
(***************************************************************************)
MainInit(r, keyExists, raises) ==
  /\ run[r].pc \in {"idle", "done"}
  /\ runsStarted < MaxRuns
  /\ runsStarted' = runsStarted + 1
  /\ LET firebase_status == initialize_firebase(keyExists, raises) IN
     run' = [run EXCEPT ![r] =
               [IdleRun EXCEPT
                  !.firebase_status = firebase_status,
                  !.keyExists = keyExists,
                  !.initRaises = (keyExists /\ raises),
                  !.preModel = modelFile,
                  !.preBackup = backupFile,
                  !.previous =
                     IF run[r].pc = "done" /\ run[r].result # "True"
                     THEN [unpublished |-> TRUE,
                           real_training_data |-> run[r].real_training_data]
                     ELSE NoPrevious,
                  !.pc = IF firebase_status = "False" THEN "done" ELSE "export",
                  !.exit = IF firebase_status = "False" THEN 1 ELSE -1]]
  /\ UNCHANGED <<store, csvFiles, modelFile, backupFile, clock>>
  /\ UNCHANGED <<serviceVars, call>>

(***************************************************************************)
(* main, lines 315-338: fetch the observed records, select the source      *)
(***************************************************************************)
MainExport(r, queryFails) ==
  /\ run[r].pc = "export"
  /\ LET real_training_data ==
           IF run[r].firebase_status = "True"
           THEN export_training_data(store, queryFails)
           ELSE <<>>
     IN run' = [run EXCEPT ![r] =
                  [@ EXCEPT
                     !.real_training_data = real_training_data,
                     !.all_training_data = SelectSource(real_training_data, csvFiles),
                     !.exportFailed = (run[r].firebase_status = "True" /\ queryFails),
                     !.selected = TRUE,
                     !.pc = "gate"]]
  /\ UNCHANGED <<store, csvFiles, modelFile, backupFile, clock, runsStarted>>
  /\ UNCHANGED <<serviceVars, call>>

(***************************************************************************)
(* main, lines 340-343: the minimum-sample gate                            *)
(***************************************************************************)
EnoughSamples(all_training_data) == Len(all_training_data) >= MIN_TRAINING_SAMPLES

MainSkip(r) ==
  /\ run[r].pc = "gate"
  /\ ~EnoughSamples(run[r].all_training_data)
  /\ run' = [run EXCEPT ![r] = [@ EXCEPT !.previous = NoPrevious,
                                           !.pc = "done", !.exit = 0]]
  /\ UNCHANGED <<store, csvFiles, modelFile, backupFile, clock, runsStarted>>
  /\ UNCHANGED <<serviceVars, call>>

(***************************************************************************)
(* main, lines 354-373: deduplicate, fit the encoders, train               *)
(* (train_test_split raises on fewer than two rows: the invocation dies)   *)
(***************************************************************************)
\* variant of the round that adds the values of the current artifact's
\* registry to the new one
MainTrainIncremental(r) ==
  /\ run[r].pc = "gate"
  /\ EnoughSamples(run[r].all_training_data)
  /\ LET df == drop_duplicates(run[r].all_training_data)
         merged == [col \in FeatureColumns |->
                      SortedClasses(ColumnValues(df, col)
                                    \cup { modelFile.encoders[col][i] :
                                             i \in 1..Len(modelFile.encoders[col]) })]
     IN
     run' = [run EXCEPT ![r] =
               IF Len(df) < 2
               THEN [@ EXCEPT !.previous = NoPrevious, !.df = df, !.encoders = merged,
                               !.raised = "ValueError",
                               !.pc = "done", !.exit = 1]
               ELSE [@ EXCEPT !.previous = NoPrevious, !.df = df, !.encoders = merged,
                               !.metrics = train_model(Len(df)),
                               !.trained = TRUE, !.pc = "save_backup"]]
  /\ UNCHANGED <<store, csvFiles, modelFile, backupFile, clock, runsStarted>>
  /\ UNCHANGED <<serviceVars, call>>

MainTrain(r) ==
  /\ run[r].pc = "gate"
  /\ EnoughSamples(run[r].all_training_data)
  /\ LET df == drop_duplicates(run[r].all_training_data) IN
     run' = [run EXCEPT ![r] =
               IF Len(df) < 2
               THEN [@ EXCEPT !.previous = NoPrevious, !.df = df, !.encoders = prepare_features(df),
                               !.raised = "ValueError",
                               !.pc = "done", !.exit = 1]
               ELSE [@ EXCEPT !.previous = NoPrevious, !.df = df, !.encoders = prepare_features(df),
                               !.metrics = train_model(Len(df)),
                               !.trained = TRUE, !.pc = "save_backup"]]
  /\ UNCHANGED <<store, csvFiles, modelFile, backupFile, clock, runsStarted>>
  /\ UNCHANGED <<serviceVars, call>>

(***************************************************************************)
(* save_model, lines 241-244: back up the existing model                   *)
(***************************************************************************)
\* variant of the backup step that keeps a backup that is already there
BackupStepKeepsOld(outcome, model_file, backup_file) ==
  IF Exists(model_file) /\ ~Exists(backup_file)
  THEN CopyResult(outcome, model_file, backup_file)
  ELSE backup_file

\* what BACKUP_MODEL_PATH holds after the backup step
BackupStep(outcome, model_file, backup_file) ==
  IF Exists(model_file) THEN CopyResult(outcome, model_file, backup_file)
  ELSE backup_file

SaveBackup(r, outcome) ==
  /\ run[r].pc = "save_backup"
  /\ Exists(modelFile) \/ outcome = "ok"
  /\ backupFile' = BackupStep(outcome, modelFile, backupFile)
  /\ run' = [run EXCEPT ![r] =
               IF outcome = "ok"
               THEN [@ EXCEPT !.pc = "save_write"]
               ELSE [@ EXCEPT !.pc = "save_except", !.backupFault = outcome]]
  /\ UNCHANGED <<store, csvFiles, modelFile, clock, runsStarted>>
  /\ UNCHANGED <<serviceVars, call>>

(***************************************************************************)
(* save_model, lines 247-262: build model_data and write it to MODEL_PATH  *)
(***************************************************************************)
SaveWrite(r, outcome) ==
  /\ run[r].pc = "save_write"
  /\ clock' = clock + 1
  /\ LET model_data == Artifact(clock + 1, run[r].encoders, run[r].metrics) IN
     /\ modelFile' = WriteResult(outcome, model_data, modelFile)
     /\ run' = [run EXCEPT ![r] =
                  IF outcome = "ok"
                  THEN [@ EXCEPT !.model_data = model_data, !.result = "True",
                                  !.pc = "after_save"]
                  ELSE [@ EXCEPT !.model_data = model_data,
                                  !.writeFault = outcome, !.pc = "save_except"]]
  /\ UNCHANGED <<store, csvFiles, backupFile, runsStarted>>
  /\ UNCHANGED <<serviceVars, call>>

(***************************************************************************)
(* save_model, lines 264-271: the except handler restores the backup; a    *)
(* copy that raises here leaves save_model as an exception and main dies   *)
(***************************************************************************)
\* variant of the handler that reports the failure without restoring
RestoreStepSkipped(outcome, backup_file, model_file) == model_file

\* what MODEL_PATH holds after the handler
RestoreStep(outcome, backup_file, model_file) ==
  IF Exists(backup_file) THEN CopyResult(outcome, backup_file, model_file)
  ELSE model_file

SaveExcept(r, outcome) ==
  /\ run[r].pc = "save_except"
  /\ Exists(backupFile) \/ outcome = "ok"
  /\ modelFile' = RestoreStep(outcome, backupFile, modelFile)
  /\ run' = [run EXCEPT ![r] =
               IF outcome = "ok"
               THEN [@ EXCEPT !.result = "False", !.pc = "after_save"]
               ELSE [@ EXCEPT !.result = "raised", !.restoreFault = outcome,
                               !.raised = "OSError", !.pc = "done", !.exit = 1]]
  /\ UNCHANGED <<store, csvFiles, backupFile, clock, runsStarted>>
  /\ UNCHANGED <<serviceVars, call>>

(***************************************************************************)
(* main, lines 376-392: after save_model.  Line 378 reads the name         *)
(* new_training_data, which nothing defines: when firebase_status is True  *)
(* the condition raises NameError, mark_data_as_used is not called and the *)
(* interpreter exits with status 1.  When firebase_status is None the      *)
(* `and` short-circuits and main returns 0.                                *)
(***************************************************************************)
\* variant that calls mark_data_as_used whatever save_model returned
AfterSaveMarksAlways(result, firebase_status) ==
  [raised |-> "none", exit |-> IF result = "True" THEN 0 ELSE 1,
   marks |-> (firebase_status = "True")]

\* marks: whether mark_data_as_used (line 379) is called
AfterSave(result, firebase_status) ==
  IF result = "True"
  THEN IF firebase_status = "True"
       THEN [raised |-> "NameError", exit |-> 1, marks |-> FALSE]
       ELSE [raised |-> "none", exit |-> 0, marks |-> FALSE]
  ELSE [raised |-> "none", exit |-> 1, marks |-> FALSE]

\* mark_data_as_used(n) as a whole: the first n unconsumed documents flagged
mark_data_as_used(docs, n) == Commit(docs, Ids(QueryUnused(docs, n)))

MainFinish(r) ==
  /\ run[r].pc = "after_save"
  /\ LET end == AfterSave(run[r].result, run[r].firebase_status) IN
     /\ run' = [run EXCEPT ![r] =
                  [@ EXCEPT !.raised = end.raised, !.exit = end.exit, !.pc = "done"]]
     /\ store' = IF end.marks
                 THEN mark_data_as_used(store, Len(run[r].real_training_data))
                 ELSE store
  /\ UNCHANGED <<csvFiles, modelFile, backupFile, clock, runsStarted>>
  /\ UNCHANGED <<serviceVars, call>>

(***************************************************************************)
(* The prediction service: load_model                                      *)
(***************************************************************************)
\* a file that holds a pickled bare model (the legacy layout)
BareModel(version) ==
  [kind |-> "bare", version |-> version, encoders |-> NoEncoders,
   metrics |-> NoMetrics]

\* a file that holds a pickled dict with no 'model' entry
DictWithoutModel ==
  [kind |-> "dict_no_model", version |-> 0, encoders |-> NoEncoders,
   metrics |-> NoMetrics]

\* the globals before load_model: model = None, label_encoders = None
NoneModel == [isNone |-> TRUE, version |-> 0]
NoneEncoders == [isNone |-> TRUE, keys |-> {}, classes |-> NoEncoders]

\* load_model: the value it returns and the globals it leaves
load_model(file) ==
  CASE file.kind = "dict" ->
         [ok |-> TRUE,
          model |-> [isNone |-> FALSE, version |-> file.version],
          label_encoders |-> [isNone |-> FALSE, keys |-> FeatureColumns,
                              classes |-> file.encoders]]
    [] file.kind = "bare" ->
         [ok |-> TRUE,
          model |-> [isNone |-> FALSE, version |-> file.version],
          label_encoders |-> [isNone |-> FALSE, keys |-> {},
                              classes |-> NoEncoders]]
    [] file.kind = "dict_no_model" ->
         \* data.get('model') is None, data.get('encoders', {}) is {}
         [ok |-> TRUE,
          model |-> NoneModel,
          label_encoders |-> [isNone |-> FALSE, keys |-> {},
                              classes |-> NoEncoders]]
    [] OTHER ->
         [ok |-> FALSE, model |-> NoneModel, label_encoders |-> NoneEncoders]

(***************************************************************************)
(* encode_feature                                                          *)
(***************************************************************************)
encoding_maps ==
  [patient_type |->
     ("Adult" :> 0) @@ ("Child" :> 1) @@ ("adult" :> 0) @@ ("child" :> 1),
   day_of_week |->
     ("Monday" :> 0) @@ ("Tuesday" :> 1) @@ ("Wednesday" :> 2)
     @@ ("Thursday" :> 3) @@ ("Friday" :> 4) @@ ("Saturday" :> 5)
     @@ ("Sunday" :> 6) @@ ("monday" :> 0) @@ ("tuesday" :> 1)
     @@ ("wednesday" :> 2) @@ ("thursday" :> 3) @@ ("friday" :> 4)
     @@ ("saturday" :> 5) @@ ("sunday" :> 6),
   time_period |->
     ("Morning" :> 0) @@ ("Afternoon" :> 1) @@ ("Evening" :> 2)
     @@ ("morning" :> 0) @@ ("afternoon" :> 1) @@ ("evening" :> 2)
     @@ ("AM" :> 0) @@ ("PM" :> 1)]

\* dict.get(value, default)
MapGet(map, value, default) ==
  IF value \in DOMAIN map THEN map[value] ELSE default

\* encode_feature(value, feature_name) with default = 0
encode_feature(value, feature_name, encoders) ==
  IF feature_name \in encoders.keys
  THEN IF Transform(encoders.classes[feature_name], value) # -1
       THEN Transform(encoders.classes[feature_name], value)
       ELSE 0
  ELSE IF feature_name \in DOMAIN encoding_maps
       THEN MapGet(encoding_maps[feature_name], value, 0)
       ELSE 0

(***************************************************************************)
(* Character strings (the appointment time): sequences of characters       *)
(***************************************************************************)
LowerAlphabet ==
  << "a", "b", "c", "d", "e", "f", "g", "h", "i", "j", "k", "l", "m",
     "n", "o", "p", "q", "r", "s", "t", "u", "v", "w", "x", "y", "z" >>
UpperAlphabet ==
  << "A", "B", "C", "D", "E", "F", "G", "H", "I", "J", "K", "L", "M",
     "N", "O", "P", "Q", "R", "S", "T", "U", "V", "W", "X", "Y", "Z" >>
Digits == << "0", "1", "2", "3", "4", "5", "6", "7", "8", "9" >>

UpperChar(c) ==
  IF \E i \in 1..Len(LowerAlphabet) : LowerAlphabet[i] = c
  THEN UpperAlphabet[CHOOSE i \in 1..Len(LowerAlphabet) : LowerAlphabet[i] = c]
  ELSE c

\* str.upper()
Upper(str) == [i \in 1..Len(str) |-> UpperChar(str[i])]

\* sub in str
Contains(str, sub) ==
  \E i \in 0..(Len(str) - Len(sub)) :
    \A k \in 1..Len(sub) : str[i + k] = sub[k]

IsSpace(c) == c = " "

\* str.split(): the maximal runs of non-space characters
RECURSIVE SplitSpace(_, _)
SplitSpace(str, word) ==
  IF str = <<>> THEN (IF word = <<>> THEN <<>> ELSE <<word>>)
  ELSE IF IsSpace(Head(str))
       THEN (IF word = <<>> THEN <<>> ELSE <<word>>) \o SplitSpace(Tail(str), <<>>)
       ELSE SplitSpace(Tail(str), Append(word, Head(str)))

\* str.split(':')[0]: the characters before the first colon
RECURSIVE BeforeColon(_)
BeforeColon(str) ==
  IF str = <<>> \/ Head(str) = ":" THEN <<>>
  ELSE <<Head(str)>> \o BeforeColon(Tail(str))

\* str.strip() of spaces
RECURSIVE StripLeft(_)
StripLeft(str) ==
  IF str # <<>> /\ IsSpace(Head(str)) THEN StripLeft(Tail(str)) ELSE str
RECURSIVE StripRight(_)
StripRight(str) ==
  IF str # <<>> /\ IsSpace(str[Len(str)])
  THEN StripRight(SubSeq(str, 1, Len(str) - 1)) ELSE str
Strip(str) == StripRight(StripLeft(str))

IsDigit(c) == \E i \in 1..Len(Digits) : Digits[i] = c
DigitValue(c) == (CHOOSE i \in 1..Len(Digits) : Digits[i] = c) - 1

RECURSIVE DigitsValue(_)
DigitsValue(str) ==
  IF str = <<>> THEN 0
  ELSE 10 * DigitsValue(SubSeq(str, 1, Len(str) - 1)) + DigitValue(str[Len(str)])

\* int(str): [ok, value]; spaces around, an optional sign, then digits only
ParseInt(str) ==
  LET t == Strip(str)
      signed == t # <<>> /\ Head(t) \in {"+", "-"}
      digits == IF signed THEN Tail(t) ELSE t
  IN IF digits # <<>> /\ \A i \in 1..Len(digits) : IsDigit(digits[i])
     THEN [ok |-> TRUE,
           value |-> IF signed /\ Head(t) = "-" THEN 0 - DigitsValue(digits)
                     ELSE DigitsValue(digits)]
     ELSE [ok |-> FALSE, value |-> 0]

(***************************************************************************)
(* get_time_period                                                         *)
(***************************************************************************)
TimeBucket(hour) ==
  IF 5 <= hour /\ hour < 12 THEN "Morning"
  ELSE IF 12 <= hour /\ hour < 17 THEN "Afternoon"
  ELSE "Evening"

\* time_str is a character string; every exception gives 'Afternoon'
get_time_period(time_str) ==
  IF Contains(Upper(time_str), <<"A", "M">>) \/ Contains(Upper(time_str), <<"P", "M">>)
  THEN LET words == SplitSpace(time_str, <<>>)
           \* words is not empty: the string holds AM or PM
           time_part == words[1]
           period == IF Len(words) > 1 THEN Upper(words[2]) ELSE <<"A", "M">>
           parsed == ParseInt(BeforeColon(time_part))
           hour == IF period = <<"P", "M">> /\ parsed.value # 12
                   THEN parsed.value + 12
                   ELSE IF period = <<"A", "M">> /\ parsed.value = 12 THEN 0
                   ELSE parsed.value
       IN IF parsed.ok THEN TimeBucket(hour) ELSE "Afternoon"
  ELSE LET parsed == ParseInt(BeforeColon(time_str))
       IN IF parsed.ok THEN TimeBucket(parsed.value) ELSE "Afternoon"

(***************************************************************************)
(* predict: the day of the week of appointment_date                        *)
(***************************************************************************)
\* appointment_date: given (present and not empty), valid (fromisoformat
\* accepts it), and the date it names
NoDate == [given |-> FALSE, valid |-> FALSE, y |-> 0, m |-> 0, d |-> 0]
BadDate == [given |-> TRUE, valid |-> FALSE, y |-> 0, m |-> 0, d |-> 0]
Date(y, m, d) == [given |-> TRUE, valid |-> TRUE, y |-> y, m |-> m, d |-> d]

DayNames ==
  << "Sunday", "Monday", "Tuesday", "Wednesday", "Thursday", "Friday",
     "Saturday" >>

\* strftime('%A') of a Gregorian date
Weekday(y, m, d) ==
  LET t == <<0, 3, 2, 5, 0, 3, 5, 1, 4, 6, 2, 4>>
      yy == IF m < 3 THEN y - 1 ELSE y
  IN DayNames[((yy + (yy \div 4) - (yy \div 100) + (yy \div 400) + t[m] + d) % 7) + 1]

DayOfWeek(date) ==
  IF date.given /\ date.valid THEN Weekday(date.y, date.m, date.d) ELSE "Monday"

(***************************************************************************)
(* predict                                                                 *)
(***************************************************************************)
\* hash(str) is salted per process; the model draws the salt when the
\* process starts and mixes it into the code points
RECURSIVE MixCodes(_, _)
MixCodes(cs, h) ==
  IF cs = <<>> THEN h
  ELSE MixCodes(Tail(cs), (31 * h + Head(cs)) % 1000003)

StrHash(s, salt) == MixCodes(CodePoints(s), salt)

\* fallback_durations, in the order of the dict, in minutes
fallback_durations ==
  << <<"extraction", 25>>, <<"cleaning", 35>>, <<"filling", 30>>,
     <<"root canal", 60>>, <<"crown", 45>>, <<"checkup", 20>> >>

RECURSIVE FallbackFrom(_, _)
FallbackFrom(procedure_type, k) ==
  IF k > Len(fallback_durations) THEN 60
  ELSE IF Contains(CodePoints(procedure_type), CodePoints(fallback_durations[k][1]))
       THEN fallback_durations[k][2]
       ELSE FallbackFrom(procedure_type, k + 1)

\* variant of the lookup that wants the procedure type to equal the keyword
FallbackDurationExact(procedure_type) ==
  IF \E k \in 1..Len(fallback_durations) : fallback_durations[k][1] = procedure_type
  THEN fallback_durations[CHOOSE k \in 1..Len(fallback_durations) :
                            fallback_durations[k][1] = procedure_type][2]
  ELSE 60

FallbackDuration(procedure_type) == FallbackFrom(procedure_type, 1)

\* durations are kept in hundredths of a minute
Minutes(n) == 100 * n

\* variant of the clamp with no upper end
ClampLowOnly(prediction) ==
  IF prediction < 1000 THEN 1000 ELSE prediction

\* max(10, min(180, prediction))
Clamp(prediction) ==
  IF prediction < Minutes(10) THEN Minutes(10)
  ELSE IF prediction > Minutes(180) THEN Minutes(180) ELSE prediction

\* round(x, 1): to the nearest tenth of a minute, a tie to the even tenth
Round1(x) ==
  LET tenths == x \div 10
      rest == x % 10
  IN IF rest > 5 \/ (rest = 5 /\ tenths % 2 = 1) THEN 10 * (tenths + 1)
     ELSE 10 * tenths

NoFeatures ==
  [procedure_type |-> "", patient_type |-> "", day_of_week |-> "",
   time_period |-> ""]

\* a response: the HTTP status, the JSON fields (duration -1: not in the
\* body), and the feature vector handed to model.predict
NoResponse ==
  [route |-> "none", status |-> 0, error |-> "none", duration |-> -1,
   confidence |-> "none", model_used |-> FALSE, fallback |-> FALSE,
   features |-> NoFeatures, vector |-> <<>>, model_loaded |-> FALSE]

\* a request: body is "json" (an object) or "none" (no JSON body); has_* tell
\* which fields the object has, procedure_type_is_str whether procedure_type
\* is a string (lower() raises on anything else)
Request(procedure_type, patient_type, appointment_date, appointment_time) ==
  [body |-> "json", has_procedure_type |-> TRUE, has_patient_type |-> TRUE,
   has_appointment_time |-> TRUE, procedure_type_is_str |-> TRUE,
   procedure_type |-> procedure_type, patient_type |-> patient_type,
   appointment_date |-> appointment_date, appointment_time |-> appointment_time]

NoRequest == Request("", "", NoDate, <<>>)

\* predict, lines 128-227.  prediction is what model.predict returns and
\* predictRaises whether it raises
predict(req, mdl, encoders, salt, prediction, predictRaises) ==
  LET error500 ==
        [NoResponse EXCEPT !.route = "predict", !.status = 500, !.error = "exception",
                           !.duration = Minutes(60), !.confidence = "low",
                           !.model_used = FALSE]
      procedure_type == Lower(req.procedure_type)
      patient_type == IF req.has_patient_type THEN req.patient_type ELSE "Adult"
      appointment_time ==
        IF req.has_appointment_time THEN req.appointment_time
        ELSE <<"1", "2", ":", "0", "0", " ", "P", "M">>
      day_of_week == DayOfWeek(req.appointment_date)
      time_period == get_time_period(appointment_time)
      vector ==
        << StrHash(procedure_type, salt) % 1000,
           encode_feature(patient_type, "patient_type", encoders),
           encode_feature(day_of_week, "day_of_week", encoders),
           encode_feature(time_period, "time_period", encoders) >>
  IN IF req.body # "json" THEN error500
     ELSE IF ~req.has_procedure_type \/ ~req.has_patient_type
     THEN [NoResponse EXCEPT !.route = "predict", !.status = 400,
                             !.error = "missing field"]
     ELSE IF ~req.procedure_type_is_str THEN error500
     ELSE IF mdl.isNone
     THEN [NoResponse EXCEPT !.route = "predict", !.status = 200,
                             !.duration = Minutes(FallbackDuration(procedure_type)),
                             !.confidence = "low", !.model_used = FALSE,
                             !.fallback = TRUE]
     ELSE IF predictRaises THEN error500
     ELSE [NoResponse EXCEPT
             !.route = "predict", !.status = 200,
             !.duration = Round1(Clamp(prediction)),
             !.confidence = "high", !.model_used = TRUE,
             !.features = [procedure_type |-> procedure_type,
                           patient_type |-> patient_type,
                           day_of_week |-> day_of_week,
                           time_period |-> time_period],
             !.vector = vector]

\* variant of health that reports a model whatever was loaded
health_always_loaded(mdl) ==
  [NoResponse EXCEPT !.route = "health", !.status = 200, !.model_loaded = TRUE]

\* health, lines 100-106
health(mdl) ==
  [NoResponse EXCEPT !.route = "health", !.status = 200,
                     !.model_loaded = ~mdl.isNone]

(***************************************************************************)
(* The service process                                                     *)
(***************************************************************************)
\* no process: nothing was loaded
NoProc == [loaded_from |-> Absent, load_ok |-> FALSE, failed |-> FALSE]
\* model.predict was not called
NoOutput == [prediction |-> 0, raises |-> FALSE]

ServiceInit ==
  /\ svc = "stopped"
  /\ model = NoneModel
  /\ label_encoders = NoneEncoders
  /\ hashSalt = 0
  /\ request = NoRequest
  /\ response = NoResponse
  /\ modelOutput = NoOutput
  /\ proc = NoProc

\* the module is imported: load_model runs once (lines 43-45); whatever it
\* returns, the process goes on to serve
StartService(salt) ==
  /\ svc = "stopped"
  /\ svc' = "running"
  /\ hashSalt' = salt
  /\ model' = load_model(modelFile).model
  /\ label_encoders' = load_model(modelFile).label_encoders
  /\ request' = NoRequest
  /\ response' = NoResponse
  /\ modelOutput' = NoOutput
  /\ proc' = [loaded_from |-> modelFile, load_ok |-> load_model(modelFile).ok,
              failed |-> FALSE]
  /\ UNCHANGED <<pipelineVars, call>>

\* the request gets as far as model.predict (line 200)
ReachesModel(req, mdl) ==
  /\ req.body = "json"
  /\ req.has_procedure_type
  /\ req.has_patient_type
  /\ req.procedure_type_is_str
  /\ ~mdl.isNone

\* what model.predict does is drawn only for the requests that reach it, and
\* a call that raises returns nothing
OutputDrawn(req, mdl, prediction, predictRaises) ==
  /\ ~ReachesModel(req, mdl) => (prediction = NoOutput.prediction /\ ~predictRaises)
  /\ predictRaises => prediction = NoOutput.prediction

\* variant of the handler that runs load_model again after an exception
PredictReloads(req, prediction, predictRaises) ==
  LET resp == predict(req, model, label_encoders, hashSalt, prediction,
                      predictRaises)
  IN /\ svc = "running"
     /\ OutputDrawn(req, model, prediction, predictRaises)
     /\ request' = req
     /\ modelOutput' = [prediction |-> prediction, raises |-> predictRaises]
     /\ response' = resp
     /\ proc' = [proc EXCEPT !.failed = @ \/ resp.status = 500]
     /\ model' = IF resp.status = 500 THEN load_model(modelFile).model ELSE model
     /\ label_encoders' = IF resp.status = 500
                          THEN load_model(modelFile).label_encoders
                          ELSE label_encoders
     /\ UNCHANGED <<svc, hashSalt, pipelineVars, call>>

\* variant of the handler in which an exception ends the process
PredictCrashes(req, prediction, predictRaises) ==
  LET resp == predict(req, model, label_encoders, hashSalt, prediction,
                      predictRaises)
  IN /\ svc = "running"
     /\ OutputDrawn(req, model, prediction, predictRaises)
     /\ request' = req
     /\ modelOutput' = [prediction |-> prediction, raises |-> predictRaises]
     /\ response' = resp
     /\ proc' = [proc EXCEPT !.failed = @ \/ resp.status = 500]
     /\ svc' = IF resp.status = 500 THEN "stopped" ELSE svc
     /\ UNCHANGED <<model, label_encoders, hashSalt, pipelineVars, call>>

\* POST /predict
Predict(req, prediction, predictRaises) ==
  LET resp == predict(req, model, label_encoders, hashSalt, prediction,
                      predictRaises)
  IN /\ svc = "running"
     /\ OutputDrawn(req, model, prediction, predictRaises)
     /\ request' = req
     /\ modelOutput' = [prediction |-> prediction, raises |-> predictRaises]
     /\ response' = resp
     /\ proc' = [proc EXCEPT !.failed = @ \/ resp.status = 500]
     /\ UNCHANGED <<svc, model, label_encoders, hashSalt, pipelineVars, call>>

\* GET /health
Health ==
  /\ svc = "running"
  /\ request' = NoRequest
  /\ modelOutput' = NoOutput
  /\ response' = health(model)
  /\ UNCHANGED <<svc, model, label_encoders, hashSalt, proc, pipelineVars, call>>

\* the process ends; its globals are gone
StopService ==
  /\ svc = "running"
  /\ svc' = "stopped"
  /\ model' = NoneModel
  /\ label_encoders' = NoneEncoders
  /\ hashSalt' = 0
  /\ request' = NoRequest
  /\ response' = NoResponse
  /\ modelOutput' = NoOutput
  /\ proc' = NoProc
  /\ UNCHANGED <<pipelineVars, call>>

\* a retraining run publishes a new artifact at MODEL_PATH while the service
\* may be running; the service has no code that reads the file again
ReplaceArtifact(file) ==
  /\ file # modelFile
  /\ modelFile' = file
  /\ UNCHANGED <<store, csvFiles, backupFile, clock, runsStarted, run>>
  /\ UNCHANGED <<serviceVars, call>>

\* the files the service may find at MODEL_PATH: none, a cut-short one, the
\* legacy bare model, a dict with no model, and artifacts as save_model
\* writes them
NewArtifact ==
  Artifact(3,
           prepare_features(drop_duplicates(
             export_training_data(StoreOf(MIN_TRAINING_SAMPLES, 0), FALSE))),
           train_model(MIN_TRAINING_SAMPLES))

ServiceFiles ==
  { Absent, Partial, BareModel(1), DictWithoutModel, OldArtifact, NewArtifact }

\* the requests sent to the service
TimeStrings ==
  { <<"9", ":", "0", "0", " ", "A", "M">>,
    <<"2", ":", "0", "0", " ", "P", "M">>,
    <<"2", "0", ":", "3", "0">> }

\* 2024-01-15 is a Monday, 2024-01-16 a Tuesday, 2024-01-19 a Friday
Dates == { NoDate, BadDate, Date(2024, 1, 15), Date(2024, 1, 16), Date(2024, 1, 19) }

Procedures ==
  { "Cleaning", "extraction", "Root Canal", "checkup crown", "whitening",
    "filling", "checkup" }

\* a request for a cleaning, an adult, a Monday at 9:00 AM, and the requests
\* that differ from it in one field
BaseRequest ==
  Request("Cleaning", "Adult", Date(2024, 1, 15),
          <<"9", ":", "0", "0", " ", "A", "M">>)

GoodRequests ==
  { [BaseRequest EXCEPT !.procedure_type = p] : p \in Procedures }
  \cup { [BaseRequest EXCEPT !.patient_type = q] : q \in {"Adult", "Child"} }
  \cup { [BaseRequest EXCEPT !.appointment_date = d] : d \in Dates }
  \cup { [BaseRequest EXCEPT !.appointment_time = t] : t \in TimeStrings }

BadRequests ==
  LET base == Request("extraction", "Adult", NoDate, <<>>) IN
  { [base EXCEPT !.body = "none"],
    [base EXCEPT !.has_procedure_type = FALSE],
    [base EXCEPT !.has_patient_type = FALSE],
    [base EXCEPT !.procedure_type_is_str = FALSE],
    [base EXCEPT !.has_appointment_time = FALSE] }

Requests == GoodRequests \cup BadRequests

\* what model.predict may return, in hundredths of a minute
RawPredictions == { 0, Minutes(5), Minutes(45), 4565, Minutes(300) }

\* the salts a process may draw
HashSalts == 0..MaxHashSalt

(***************************************************************************)
(* Retraining runs one at a time (one invocation, started again when it    *)
(* has ended)                                                              *)
(***************************************************************************)
NoCall == [fn |-> "none", arg |-> <<>>, result |-> <<>>, done |-> FALSE]

Init == PipelineInit /\ ServiceInit /\ call = NoCall

Next ==
  \E r \in Serial :
    \/ \E keyExists \in BOOLEAN, raises \in BOOLEAN : MainInit(r, keyExists, raises)
    \/ \E queryFails \in BOOLEAN : MainExport(r, queryFails)
    \/ MainSkip(r)
    \/ MainTrain(r)
    \/ \E outcome \in CopyOutcomes : SaveBackup(r, outcome)
    \/ \E outcome \in WriteOutcomes : SaveWrite(r, outcome)
    \/ \E outcome \in CopyOutcomes : SaveExcept(r, outcome)
    \/ MainFinish(r)

Spec == Init /\ [][Next]_vars

(***************************************************************************)
(* Retraining runs that may overlap: two processes run main on the same    *)
(* MODEL_PATH and BACKUP_MODEL_PATH, their steps interleaved               *)
(***************************************************************************)
\* the bootstrap files hold enough rows to train, or one row too few
InitRace ==
  /\ store = <<>>
  /\ csvFiles \in
       { CsvLayout(NoCsv, NoCsv, NoCsv, CsvFile(MIN_TRAINING_SAMPLES - 1, FALSE)),
         CsvLayout(CsvFile(MIN_TRAINING_SAMPLES - 20, FALSE), NoCsv,
                   CsvFile(20, FALSE), CsvFile(MIN_TRAINING_SAMPLES, FALSE)) }
  /\ modelFile = OldArtifact
  /\ backupFile \in {Absent, OlderArtifact}
  /\ clock = 2
  /\ runsStarted = 0
  /\ run = [r \in Runs |-> IdleRun]
  /\ ServiceInit
  /\ call = NoCall

\* the store is left out of it: no key, nothing to fetch
NextRace ==
  \E r \in Runs :
    \/ \E keyExists \in {FALSE}, raises \in {FALSE} : MainInit(r, keyExists, raises)
    \/ \E queryFails \in {FALSE} : MainExport(r, queryFails)
    \/ MainSkip(r)
    \/ MainTrain(r)
    \/ \E outcome \in CopyOutcomes : SaveBackup(r, outcome)
    \/ \E outcome \in WriteOutcomes : SaveWrite(r, outcome)
    \/ \E outcome \in CopyOutcomes : SaveExcept(r, outcome)
    \/ MainFinish(r)

SpecRace == InitRace /\ [][NextRace]_vars

(***************************************************************************)
(* The prediction service over the files it may find                       *)
(***************************************************************************)
\* the pipeline at rest: no documents, no bootstrap files, no invocation
PipelineInitIdle ==
  /\ store = <<>>
  /\ csvFiles = CsvLayout(NoCsv, NoCsv, NoCsv, NoCsv)
  /\ modelFile = Absent
  /\ backupFile = Absent
  /\ clock = 2
  /\ runsStarted = 0
  /\ run = [r \in Runs |-> IdleRun]

InitService ==
  /\ store = <<>>
  /\ csvFiles = CsvLayout(NoCsv, NoCsv, NoCsv, NoCsv)
  /\ modelFile \in ServiceFiles
  /\ backupFile = Absent
  /\ clock = 3
  /\ runsStarted = 0
  /\ run = [r \in Runs |-> IdleRun]
  /\ ServiceInit
  /\ call = NoCall

NextService ==
  \/ \E salt \in HashSalts : StartService(salt)
  \/ \E req \in Requests, prediction \in RawPredictions, predictRaises \in BOOLEAN :
       Predict(req, prediction, predictRaises)
  \/ Health
  \/ StopService
  \/ \E file \in {NewArtifact} : ReplaceArtifact(file)

SpecService == InitService /\ [][NextService]_vars

(***************************************************************************)
(* drop_duplicates applied to a corpus                                     *)
(***************************************************************************)
\* the records of the corpora: three identities, two feature rows
CorpusRecords ==
  { [load_csv_row(CsvFile(1, FALSE), "original CSV", f)
       EXCEPT !.appointmentId = id] :
      id \in { <<"id", 1>>, <<"id", 2>>, <<"firebase_", 1>> }, f \in {0, 1} }

RECURSIVE SeqsUpTo(_, _)
SeqsUpTo(S, n) ==
  IF n = 0 THEN { <<>> }
  ELSE SeqsUpTo(S, n - 1)
       \cup { Append(q, x) : q \in { p \in SeqsUpTo(S, n - 1) : Len(p) = n - 1 },
                              x \in S }

Corpora == SeqsUpTo(CorpusRecords, MaxCorpusLen)

InitDedup ==
  /\ PipelineInitIdle
  /\ ServiceInit
  /\ \E c \in Corpora :
       call = [fn |-> "drop_duplicates", arg |-> c, result |-> <<>>, done |-> FALSE]

ApplyDropDuplicates ==
  /\ call.fn = "drop_duplicates"
  /\ ~call.done
  /\ call' = [call EXCEPT !.result = drop_duplicates(call.arg), !.done = TRUE]
  /\ UNCHANGED <<pipelineVars, serviceVars>>

NextDedup == ApplyDropDuplicates

SpecDedup == InitDedup /\ [][NextDedup]_vars

(***************************************************************************)
(* load_csv_file applied twice to one bootstrap file, and once to another  *)
(***************************************************************************)
\* the source names load_initial_training_data passes (lines 160, 169)
SourceNames == { SYNTHETIC_CSV_FILES[i] : i \in 1..Len(SYNTHETIC_CSV_FILES) }
               \cup { "original CSV" }

\* files of up to MaxCsvRows rows: without the identifier column, or with it
\* and any of its cells empty
SmallCsvFiles ==
  { CsvFile(n, FALSE) : n \in 1..MaxCsvRows }
  \cup UNION { { CsvFileWithBlanks(n, blank) : blank \in SUBSET (0..(n - 1)) } :
               n \in 1..MaxCsvRows }

InitIngest ==
  /\ PipelineInitIdle
  /\ ServiceInit
  /\ \E file \in SmallCsvFiles, name \in SourceNames :
     \E other \in SourceNames \ {name} :
       call = [fn |-> "load_csv_file",
               arg |-> [file |-> file, source_name |-> name,
                        other_file |-> CsvFile(2, FALSE), other_name |-> other],
               result |-> <<>>, done |-> FALSE]

\* the file is loaded, loaded again, the two loads are put together and
\* deduplicated as main does; the other file is loaded under its own name
ApplyLoadTwice ==
  /\ call.fn = "load_csv_file"
  /\ ~call.done
  /\ LET first == load_csv_file(call.arg.file, call.arg.source_name)
         second == load_csv_file(call.arg.file, call.arg.source_name)
     IN call' = [call EXCEPT
                   !.result = [first |-> first, second |-> second,
                               other |-> load_csv_file(call.arg.other_file,
                                                       call.arg.other_name),
                               deduplicated |-> drop_duplicates(first \o second)],
                   !.done = TRUE]
  /\ UNCHANGED <<pipelineVars, serviceVars>>

NextIngest == ApplyLoadTwice

SpecIngest == InitIngest /\ [][NextIngest]_vars

(***************************************************************************)
(* get_time_period applied to a time string                                *)
(***************************************************************************)
\* the decimal digits of a number below 100
Decimal(n) ==
  IF n < 10 THEN <<Digits[n + 1]>>
  ELSE <<Digits[(n \div 10) + 1], Digits[(n % 10) + 1]>>

\* the spellings of a marker after the minutes
MarkerSpellings ==
  [AM |-> { <<" ", "A", "M">>, <<"A", "M">>, <<" ", "a", "m">>, <<"a", "m">> },
   PM |-> { <<" ", "P", "M">>, <<"P", "M">>, <<" ", "p", "m">>, <<"p", "m">> }]

\* a time string with what it says: hour (as written), marker ("AM", "PM" or
\* "none") and whether it is a time at all
TimeInput(text, hour, marker, parsable) ==
  [text |-> text, hour |-> hour, marker |-> marker, parsable |-> parsable]

TimeInputs ==
  { TimeInput(Decimal(h) \o <<":", "0", "0">> \o sp, h, mk, TRUE) :
      h \in 1..12, mk \in {"PM"}, sp \in MarkerSpellings.PM }
  \cup { TimeInput(Decimal(h) \o <<":", "3", "0">> \o sp, h, mk, TRUE) :
           h \in 1..12, mk \in {"AM"}, sp \in MarkerSpellings.AM }
  \cup { TimeInput(Decimal(h) \o <<":", "3", "0">>, h, "none", TRUE) :
           h \in {0, 4, 5, 11, 12, 14, 16, 17, 23} }
  \cup { TimeInput(<<>>, 0, "none", FALSE),
         TimeInput(<<"n", "o", "o", "n">>, 0, "none", FALSE),
         TimeInput(<<":", "3", "0">>, 0, "none", FALSE) }

InitTime ==
  /\ PipelineInitIdle
  /\ ServiceInit
  /\ \E t \in TimeInputs :
       call = [fn |-> "get_time_period", arg |-> t, result |-> "", done |-> FALSE]

ApplyGetTimePeriod ==
  /\ call.fn = "get_time_period"
  /\ ~call.done
  /\ call' = [call EXCEPT !.result = get_time_period(call.arg.text), !.done = TRUE]
  /\ UNCHANGED <<pipelineVars, serviceVars>>

NextTime == ApplyGetTimePeriod

SpecTime == InitTime /\ [][NextTime]_vars

(***************************************************************************)
(* mark_data_as_used(training_data_count), called with the number of       *)
(* records export_training_data returned; the collection may change        *)
(* between the two queries                                                 *)
(***************************************************************************)
\* collections whose unconsumed documents fill whole batches, or one
\* document more or less
MarkSizes ==
  {1} \cup { k * BATCH_LIMIT + d : k \in 1..MaxBatches, d \in {-1, 0, 1} }

MarkStores == { StoreOf(n, 0) : n \in MarkSizes }

\* variant that never commits inside the loop
CommitDueNever(count) == FALSE

\* if count % 500 == 0
CommitDue(count) == count % BATCH_LIMIT = 0

\* if count % 500 != 0
FinalCommitDue(count) == count % BATCH_LIMIT # 0

\* the value of count at which the loop next commits, or at which it ends
NextStop(count, n) ==
  CHOOSE c \in (count + 1)..n :
    /\ CommitDue(c) \/ c = n
    /\ \A d \in (count + 1)..(c - 1) : ~CommitDue(d)

NoMark ==
  [fn |-> "mark_data_as_used", pc |-> "start", fetched |-> <<>>,
   training_data_count |-> 0, docs |-> <<>>, count |-> 0, batch |-> <<>>,
   commits |-> <<>>, result |-> "none", changed |-> FALSE]

InitMark ==
  /\ store \in MarkStores
  /\ csvFiles = CsvLayout(NoCsv, NoCsv, NoCsv, NoCsv)
  /\ modelFile = Absent
  /\ backupFile = Absent
  /\ clock = 2
  /\ runsStarted = 0
  /\ run = [r \in Runs |-> IdleRun]
  /\ ServiceInit
  /\ call = NoMark

\* export_training_data(): the identifiers of the documents it returned are
\* kept; mark_data_as_used is called when there is at least one
MarkExport(queryFails) ==
  /\ call.fn = "mark_data_as_used"
  /\ call.pc = "start"
  /\ LET fetched == IF queryFails THEN <<>> ELSE Ids(Unused(store))
     IN call' = [call EXCEPT
                   !.fetched = fetched,
                   !.training_data_count = Len(export_training_data(store, queryFails)),
                   !.pc = IF Len(export_training_data(store, queryFails)) > 0
                          THEN "exported" ELSE "done"]
  /\ UNCHANGED <<pipelineVars, serviceVars>>

\* the application writes a new unconsumed document; its generated
\* identifier sorts before or after the documents there are
StoreGains(first) ==
  /\ call.fn = "mark_data_as_used"
  /\ call.pc = "exported"
  /\ ~call.changed
  /\ store' = IF first
              THEN <<StoreDoc(0, 0, FALSE)>> \o store
              ELSE Append(store, StoreDoc(Len(store) + 1, 0, FALSE))
  /\ call' = [call EXCEPT !.changed = TRUE]
  /\ UNCHANGED <<csvFiles, modelFile, backupFile, clock, runsStarted, run>>
  /\ UNCHANGED serviceVars

\* another process flags the first unconsumed document
StoreLoses ==
  /\ call.fn = "mark_data_as_used"
  /\ call.pc = "exported"
  /\ ~call.changed
  /\ Len(Unused(store)) > 0
  /\ store' = Commit(store, Ids(QueryUnused(store, 1)))
  /\ call' = [call EXCEPT !.changed = TRUE]
  /\ UNCHANGED <<csvFiles, modelFile, backupFile, clock, runsStarted, run>>
  /\ UNCHANGED serviceVars

\* docs = list(... .limit(training_data_count).stream()); batch = db.batch();
\* count = 0
MarkQuery(raises) ==
  /\ call.fn = "mark_data_as_used"
  /\ call.pc = "exported"
  /\ call' = IF raises
             THEN [call EXCEPT !.result = "False", !.pc = "done"]
             ELSE [call EXCEPT
                     !.docs = Ids(QueryUnused(store, call.training_data_count)),
                     !.count = 0, !.batch = <<>>, !.pc = "loop"]
  /\ UNCHANGED <<pipelineVars, serviceVars>>

\* the iterations of the loop up to the next commit inside it, or up to its
\* end: batch.update only fills the batch, a commit writes the collection
MarkLoop(commitRaises) ==
  /\ call.fn = "mark_data_as_used"
  /\ call.pc = "loop"
  /\ call.count < Len(call.docs)
  /\ LET count == NextStop(call.count, Len(call.docs))
         batch == call.batch \o SubSeq(call.docs, call.count + 1, count)
     IN IF ~CommitDue(count)
        THEN /\ call' = [call EXCEPT !.count = count, !.batch = batch]
             /\ UNCHANGED store
        ELSE IF commitRaises
        THEN /\ call' = [call EXCEPT !.count = count, !.batch = batch,
                                     !.result = "False", !.pc = "done"]
             /\ UNCHANGED store
        ELSE /\ call' = [call EXCEPT !.count = count, !.batch = <<>>,
                                     !.commits = Append(@, batch)]
             /\ store' = Commit(store, batch)
  /\ UNCHANGED <<csvFiles, modelFile, backupFile, clock, runsStarted, run>>
  /\ UNCHANGED serviceVars

\* after the loop: the commit of what is left, and return True
MarkReturn(commitRaises) ==
  /\ call.fn = "mark_data_as_used"
  /\ call.pc = "loop"
  /\ call.count = Len(call.docs)
  /\ IF ~FinalCommitDue(call.count)
     THEN /\ call' = [call EXCEPT !.result = "True", !.pc = "done"]
          /\ UNCHANGED store
     ELSE IF commitRaises
     THEN /\ call' = [call EXCEPT !.result = "False", !.pc = "done"]
          /\ UNCHANGED store
     ELSE /\ call' = [call EXCEPT !.batch = <<>>,
                                  !.commits = Append(@, call.batch),
                                  !.result = "True", !.pc = "done"]
          /\ store' = Commit(store, call.batch)
  /\ UNCHANGED <<csvFiles, modelFile, backupFile, clock, runsStarted, run>>
  /\ UNCHANGED serviceVars

NextMark ==
  \/ \E queryFails \in BOOLEAN : MarkExport(queryFails)
  \/ \E first \in BOOLEAN : StoreGains(first)
  \/ StoreLoses
  \/ \E raises \in BOOLEAN : MarkQuery(raises)
  \/ \E commitRaises \in BOOLEAN : MarkLoop(commitRaises)
  \/ \E commitRaises \in BOOLEAN : MarkReturn(commitRaises)

SpecMark == InitMark /\ [][NextMark]_vars

(***************************************************************************)
(* export_training_data.py: the export utility.  query.stream() returns a  *)
(* generator: the documents it yields can be iterated once                 *)
(***************************************************************************)
\* a generator over items of which the first pos have been yielded
Stream(items) == [items |-> items, pos |-> 0]

\* what `for doc in docs` still gets from the generator
Remaining(docs) == SubSeq(docs.items, docs.pos + 1, Len(docs.items))

\* the generator after a `for doc in docs` loop ran to its end
Exhausted(docs) == [docs EXCEPT !.pos = Len(docs.items)]

\* query = ...where('usedForTraining', '==', False); if limit: query =
\* query.limit(limit).  limit = 0 stands for None: both skip the limit
UtilityQuery(docs, limit) ==
  IF limit # 0 THEN QueryUnused(docs, limit) ELSE Unused(docs)

ExportStores == { StoreOf(n, 0) : n \in 0..MaxExportDocs }

ExportLimits == 0..(MaxExportDocs - 1)

NoExport(limit) ==
  [fn |-> "export_utility", pc |-> "start", limit |-> limit,
   docs |-> Stream(<<>>), training_data |-> <<>>,
   output_file |-> [exists |-> FALSE, complete |-> FALSE, rows |-> <<>>],
   count |-> 0, printed |-> "none", raised |-> FALSE]

InitExport ==
  /\ store \in ExportStores
  /\ csvFiles = CsvLayout(NoCsv, NoCsv, NoCsv, NoCsv)
  /\ modelFile = Absent
  /\ backupFile = Absent
  /\ clock = 2
  /\ runsStarted = 0
  /\ run = [r \in Runs |-> IdleRun]
  /\ ServiceInit
  /\ \E limit \in ExportLimits : call = NoExport(limit)

\* initialize_firebase of the utility: False when the key file is missing or
\* the initialization raised, and export_training_data returns at once
UtilityInitialize(keyExists, raises) ==
  /\ call.fn = "export_utility"
  /\ call.pc = "start"
  /\ call' = IF keyExists /\ ~raises
             THEN [call EXCEPT !.pc = "query"]
             ELSE [call EXCEPT !.pc = "done", !.printed = "init error"]
  /\ UNCHANGED <<pipelineVars, serviceVars>>

\* lines 48-69: the query, docs = query.stream(), and the loop that builds
\* training_data from every document the generator yields
UtilityFetch(raises) ==
  /\ call.fn = "export_utility"
  /\ call.pc = "query"
  /\ call' =
       IF raises
       THEN [call EXCEPT !.pc = "done", !.raised = TRUE, !.printed = "error"]
       ELSE LET docs == Stream(Ids(UtilityQuery(store, call.limit)))
            IN [call EXCEPT !.training_data = Remaining(docs),
                            !.docs = Exhausted(docs),
                            !.pc = "fetched"]
  /\ UNCHANGED <<pipelineVars, serviceVars>>

\* lines 72-83: the CSV is written when training_data is not empty
UtilityWrite(raises) ==
  /\ call.fn = "export_utility"
  /\ call.pc = "fetched"
  /\ call' =
       IF Len(call.training_data) = 0
       THEN [call EXCEPT !.pc = "done", !.printed = "no data"]
       ELSE IF raises
       THEN [call EXCEPT !.output_file = [exists |-> TRUE, complete |-> FALSE,
                                          rows |-> <<>>],
                         !.pc = "done", !.raised = TRUE, !.printed = "error"]
       ELSE [call EXCEPT !.output_file = [exists |-> TRUE, complete |-> TRUE,
                                          rows |-> call.training_data],
                         !.pc = "written"]
  /\ UNCHANGED <<pipelineVars, serviceVars>>

\* lines 85-98: the second `for doc in docs` over the same generator, the
\* commits, and the count printed
UtilityMark(commitRaises) ==
  /\ call.fn = "export_utility"
  /\ call.pc = "written"
  /\ LET batch == Remaining(call.docs)
         count == Len(batch)
     IN IF FinalCommitDue(count) /\ commitRaises
        THEN /\ call' = [call EXCEPT !.docs = Exhausted(call.docs),
                                     !.count = count, !.pc = "done",
                                     !.raised = TRUE, !.printed = "error"]
             /\ UNCHANGED store
        ELSE /\ call' = [call EXCEPT !.docs = Exhausted(call.docs),
                                     !.count = count, !.pc = "done",
                                     !.printed = "marked"]
             /\ store' = Commit(store, batch)
  /\ UNCHANGED <<csvFiles, modelFile, backupFile, clock, runsStarted, run>>
  /\ UNCHANGED serviceVars

NextExport ==
  \/ \E keyExists \in BOOLEAN, raises \in BOOLEAN : UtilityInitialize(keyExists, raises)
  \/ \E raises \in BOOLEAN : UtilityFetch(raises)
  \/ \E raises \in BOOLEAN : UtilityWrite(raises)
  \/ \E commitRaises \in BOOLEAN : UtilityMark(commitRaises)

SpecExport == InitExport /\ [][NextExport]_vars

(***************************************************************************)
(* Properties of the retraining pipeline                                   *)
(***************************************************************************)
Ended(r) == run[r].pc = "done"
\* save_model has returned or raised
Saved(r) == run[r].pc \in {"after_save", "done"} /\ run[r].result # "none"

\* C1: in every run of a sequence in which the write of the new artifact
\* (step 2) fails, started with an artifact at MODEL_PATH, save_model reports
\* failure and MODEL_PATH holds, readable, the bytes it held before the run.
C1_WriteFailureLeavesCurrent ==
  \A r \in Runs :
    ( /\ Saved(r)
      /\ run[r].writeFault # "none"
      /\ Exists(run[r].preModel) )
    => /\ run[r].result \in {"False", "raised"}
       /\ modelFile = run[r].preModel
       /\ Readable(run[r].preModel) => Readable(modelFile)

\* C1 amended: the same, for the runs in which the handler's copy of the
\* backup over MODEL_PATH does not itself fail: save_model returns False,
\* main exits 1 and MODEL_PATH holds the bytes it held before the run; when
\* that copy fails too, save_model raises and main still exits 1.
C1_WriteFailureRestores ==
  \A r \in Runs :
    /\ ( /\ Saved(r)
         /\ run[r].writeFault # "none"
         /\ run[r].restoreFault = "none"
         /\ Exists(run[r].preModel) )
       => /\ run[r].result = "False"
          /\ Ended(r) => run[r].exit = 1
          /\ modelFile = run[r].preModel
          /\ Readable(run[r].preModel) => Readable(modelFile)
    /\ ( /\ Saved(r)
         /\ run[r].writeFault # "none"
         /\ run[r].restoreFault # "none" )
       => /\ run[r].result = "raised"
          /\ Ended(r)
          /\ run[r].exit = 1

\* C1 witness: a second run in a row ended after pickle.dump failed on a
\* truncated MODEL_PATH and the artifact is back
C1_Witness ==
  /\ runsStarted >= 2
  /\ Ended(1)
  /\ run[1].writeFault = "dump_failed"
  /\ run[1].restoreFault = "none"
  /\ Readable(run[1].preModel)
  /\ modelFile = run[1].preModel
  /\ run[1].result = "False"

\* C2: when the copy of the current artifact to the backup slot (step 1)
\* fails, save_model reports failure and MODEL_PATH is as it was before the
\* run, whatever the backup slot held.
C2_BackupFailureLeavesModel ==
  \A r \in Runs :
    ( /\ Saved(r)
      /\ run[r].backupFault # "none"
      /\ run[r].restoreFault = "none" )
    => /\ run[r].result = "False"
       /\ modelFile = run[r].preModel

\* C3: after save_model returned True in a run started with an artifact at
\* MODEL_PATH, BACKUP_MODEL_PATH holds exactly that artifact and MODEL_PATH
\* holds the new one.
C3_BackupHoldsPrevious ==
  \A r \in Runs :
    (Saved(r) /\ run[r].result = "True" /\ Exists(run[r].preModel))
    => /\ backupFile = run[r].preModel
       /\ modelFile = run[r].model_data
       /\ Readable(modelFile)
       /\ modelFile # run[r].preModel

\* C3 witness: a successful publish over an artifact, with an older and
\* different backup overwritten, after an earlier run
C3_Witness ==
  /\ runsStarted >= 2
  /\ Ended(1)
  /\ run[1].result = "True"
  /\ Readable(run[1].preModel)
  /\ Exists(run[1].preBackup)
  /\ run[1].preBackup # run[1].preModel
  /\ backupFile = run[1].preModel

\* C4: a run trains if and only if the deduplicated corpus has at least
\* MIN_TRAINING_SAMPLES records, and a run that does not train leaves both
\* files as they were.
C4_GateOnDeduplicatedSize ==
  \A r \in Runs :
    (Ended(r) /\ run[r].selected)
    => /\ run[r].trained
          <=> Len(drop_duplicates(run[r].all_training_data)) >= MIN_TRAINING_SAMPLES
       /\ ~run[r].trained
          => modelFile = run[r].preModel /\ backupFile = run[r].preBackup

\* C5: once the source is selected the corpus has one origin: only observed
\* records when the fetch returned any, only bootstrap records otherwise;
\* the same holds of the deduplicated frame that is trained on.
C5_SingleSource ==
  \A r \in Runs :
    run[r].selected
    => LET origin == IF Len(run[r].real_training_data) > 0 THEN "firebase" ELSE "csv"
       IN /\ \A i \in 1..Len(run[r].all_training_data) :
               run[r].all_training_data[i].origin = origin
          /\ \A i \in 1..Len(run[r].df) : run[r].df[i].origin = origin
          /\ Len(run[r].real_training_data) > 0
             => run[r].all_training_data = run[r].real_training_data

\* C5 witness: a run trained on observed records while bootstrap files with
\* rows were present
C5_Witness ==
  /\ run[1].trained
  /\ Len(run[1].real_training_data) >= MIN_TRAINING_SAMPLES
  /\ Len(load_initial_training_data(csvFiles)) > 0
  /\ Len(run[1].df) > 0

\* C7: a run ends with status 0 when it published or skipped for
\* insufficient data, and with a non-zero status when publish failed.
C7_ExitStatus ==
  \A r \in Runs :
    Ended(r)
    => /\ (run[r].result = "True" \/ (run[r].selected /\ ~run[r].trained))
          => run[r].exit = 0
       /\ run[r].result \in {"False", "raised"} => run[r].exit # 0

\* C8: after a run that trained on observed records and published, every
\* document of that corpus is flagged usedForTraining in the store.
C8_CorpusConsumed ==
  \A r \in Runs :
    (Ended(r) /\ run[r].result = "True" /\ Len(run[r].real_training_data) > 0)
    => \A i \in 1..Len(store) :
         (\E j \in 1..Len(run[r].real_training_data) :
            run[r].real_training_data[j] = RecordOfDoc(store[i]))
         => store[i].usedForTraining

\* the bootstrap corpus of each layout of the bootstrap files
BootstrapCorpus ==
  [layout \in CsvLayouts |-> load_initial_training_data(layout)]

\* a store-level error met by the run: no key, initialization raised, or the
\* query failed
StoreError(r) ==
  run[r].pc # "idle"
  /\ (~run[r].keyExists \/ run[r].initRaises \/ run[r].exportFailed)

C18_RegistryFromCorpusAlone ==
  \A r \in Runs :
    run[r].trained
    => /\ \A col \in FeatureColumns :
            LET classes == run[r].encoders[col] IN
            /\ \A i, j \in 1..Len(classes) : i < j => StrLess(classes[i], classes[j])
            /\ \A i \in 1..Len(classes) :
                 \E k \in 1..Len(run[r].df) : run[r].df[k][col] = classes[i]
            /\ \A k \in 1..Len(run[r].df) :
                 \E i \in 1..Len(classes) : classes[i] = run[r].df[k][col]
       /\ (Saved(r) /\ run[r].result = "True")
          => modelFile.encoders = run[r].encoders

\* C18 witness: a round published over an artifact whose registry holds
\* values the round's corpus does not; the new registry has none of them
C18_Witness ==
  /\ Ended(1)
  /\ run[1].result = "True"
  /\ run[1].preModel = StaleArtifact
  /\ modelFile.encoders # StaleArtifact.encoders
  /\ \A i \in 1..Len(modelFile.encoders.procedureType) :
       modelFile.encoders.procedureType[i] # "filling"

\* two overlapping runs both started on the same current artifact, every
\* copy worked and only writes failed, both runs rolled back and returned
\* False, and that artifact is in neither slot
RaceLosesPrevious ==
  /\ \A r \in Runs :
       /\ Ended(r)
       /\ run[r].preModel = OldArtifact
       /\ run[r].result = "False"
       /\ run[r].backupFault = "none"
       /\ run[r].restoreFault = "none"
  /\ modelFile # OldArtifact
  /\ backupFile # OldArtifact

\* C19, the serialized half: when the second process never starts, a run
\* that started on the current artifact, failed and rolled back leaves that
\* artifact in the current slot or in the backup slot.  (The overlapping
\* half is RaceLosesPrevious, a reachable state.)
C19_SerializedKeepsPrevious ==
  ( /\ run[2].pc = "idle"
    /\ Ended(1)
    /\ run[1].result = "False"
    /\ run[1].preModel = OldArtifact )
  => (modelFile = OldArtifact \/ backupFile = OldArtifact)

\* the rows of one bootstrap file under its source name, none when the file
\* does not exist
RowsOf(files, name, source_name) ==
  IF files[name].exists
  THEN [i \in 1..files[name].rows |->
          load_csv_row(files[name], source_name, i - 1)]
  ELSE <<>>

\* for each layout of the bootstrap files, the rows of the synthetic files
\* in list order, and the rows of the legacy file
SyntheticRows ==
  [files \in CsvLayouts |->
     RowsOf(files, SYNTHETIC_CSV_FILES[1], SYNTHETIC_CSV_FILES[1])
     \o RowsOf(files, SYNTHETIC_CSV_FILES[2], SYNTHETIC_CSV_FILES[2])
     \o RowsOf(files, SYNTHETIC_CSV_FILES[3], SYNTHETIC_CSV_FILES[3])]

LegacyRows ==
  [files \in CsvLayouts |-> RowsOf(files, ORIGINAL_CSV, "original CSV")]

\* C21: in a run whose observed corpus is empty the corpus is the rows of
\* the synthetic files that exist, in list order, and the rows of the legacy
\* file exactly when no synthetic file exists; in a run with observed
\* records no row of a bootstrap file is in the corpus.
C21_BootstrapPriority ==
  \A r \in Runs :
    run[r].selected
    => LET s1 == SYNTHETIC_CSV_FILES[1]
           s2 == SYNTHETIC_CSV_FILES[2]
           s3 == SYNTHETIC_CSV_FILES[3]
           anySynthetic == \/ csvFiles[s1].exists
                           \/ csvFiles[s2].exists
                           \/ csvFiles[s3].exists
       IN /\ (Len(run[r].real_training_data) = 0 /\ anySynthetic)
             => run[r].all_training_data = SyntheticRows[csvFiles]
          /\ (Len(run[r].real_training_data) = 0 /\ ~anySynthetic)
             => run[r].all_training_data = LegacyRows[csvFiles]
          /\ Len(run[r].real_training_data) > 0
             => \A i \in 1..Len(run[r].all_training_data) :
                  run[r].all_training_data[i].origin # "csv"

\* C21 witness: two synthetic files and the legacy file exist, nothing was
\* fetched, and the corpus is the rows of the two synthetic files alone
C21_Witness ==
  /\ run[1].selected
  /\ Len(run[1].real_training_data) = 0
  /\ csvFiles[SYNTHETIC_CSV_FILES[1]].exists
  /\ csvFiles[SYNTHETIC_CSV_FILES[3]].exists
  /\ csvFiles[ORIGINAL_CSV].exists
  /\ Len(run[1].all_training_data)
       = csvFiles[SYNTHETIC_CSV_FILES[1]].rows + csvFiles[SYNTHETIC_CSV_FILES[3]].rows
  /\ \A i \in 1..Len(run[1].all_training_data) :
       run[1].all_training_data[i].appointmentId[1] # "original CSV"

(***************************************************************************)
(* Properties of drop_duplicates                                           *)
(***************************************************************************)
\* the index of the first row of rows that carries the identity id
FirstIndex(rows, id) ==
  CHOOSE i \in 1..Len(rows) :
    /\ rows[i].appointmentId = id
    /\ \A j \in 1..(i - 1) : rows[j].appointmentId # id

SameFeatures(a, b) ==
  /\ a.procedureType = b.procedureType
  /\ a.patientType = b.patientType
  /\ a.dayOfWeek = b.dayOfWeek
  /\ a.timePeriod = b.timePeriod

\* C6: the deduplicated corpus holds exactly one record per appointmentId of
\* the corpus, each the first occurrence, in corpus order; records with the
\* same feature values and different appointmentIds both survive.
C6_DedupByIdentity ==
  (call.fn = "drop_duplicates" /\ call.done)
  => LET rows == call.arg
         out == call.result
     IN /\ \A k1, k2 \in 1..Len(out) :
             k1 # k2 => out[k1].appointmentId # out[k2].appointmentId
        /\ \A i \in 1..Len(rows) :
             \E k \in 1..Len(out) : out[k].appointmentId = rows[i].appointmentId
        /\ \A k \in 1..Len(out) :
             /\ \E i \in 1..Len(rows) : rows[i].appointmentId = out[k].appointmentId
             /\ out[k] = rows[FirstIndex(rows, out[k].appointmentId)]
        /\ \A k1, k2 \in 1..Len(out) :
             k1 < k2 => FirstIndex(rows, out[k1].appointmentId)
                          < FirstIndex(rows, out[k2].appointmentId)
        /\ \A i, j \in 1..Len(rows) :
             ( /\ SameFeatures(rows[i], rows[j])
               /\ rows[i].appointmentId # rows[j].appointmentId )
             => /\ \E k \in 1..Len(out) : out[k].appointmentId = rows[i].appointmentId
                /\ \E k \in 1..Len(out) : out[k].appointmentId = rows[j].appointmentId

\* C6 witness: a corpus of three records, the second repeating the identity
\* of the first with other feature values, the third a new identity with the
\* feature values of the first: the first and the third are kept
C6_Witness ==
  /\ call.fn = "drop_duplicates"
  /\ call.done
  /\ Len(call.arg) = 3
  /\ call.arg[1].appointmentId = call.arg[2].appointmentId
  /\ ~SameFeatures(call.arg[1], call.arg[2])
  /\ call.arg[3].appointmentId # call.arg[1].appointmentId
  /\ SameFeatures(call.arg[1], call.arg[3])
  /\ call.result = <<call.arg[1], call.arg[3]>>

(***************************************************************************)
(* Properties of the prediction service                                    *)
(***************************************************************************)
\* the service answered a request from the model
AnsweredByModel ==
  /\ svc = "running"
  /\ response.route = "predict"
  /\ response.status = 200
  /\ response.model_used

\* the code the loaded registry assigns to value in column col (-1: unseen)
RegistryCode(col, value) == Transform(label_encoders.classes[col], value)

\* C10: with a fitted registry loaded, each of the four integers handed to
\* the model is the code the registry assigned to the feature's value, for
\* every value the registry has seen.
C10_ServingUsesRegistryCodes ==
  (AnsweredByModel /\ label_encoders.keys = FeatureColumns)
  => /\ RegistryCode("procedureType", response.features.procedure_type) # -1
        => response.vector[1]
             = RegistryCode("procedureType", response.features.procedure_type)
     /\ RegistryCode("patientType", response.features.patient_type) # -1
        => response.vector[2]
             = RegistryCode("patientType", response.features.patient_type)
     /\ RegistryCode("dayOfWeek", response.features.day_of_week) # -1
        => response.vector[3]
             = RegistryCode("dayOfWeek", response.features.day_of_week)
     /\ RegistryCode("timePeriod", response.features.time_period) # -1
        => response.vector[4]
             = RegistryCode("timePeriod", response.features.time_period)

\* the request sent last is well formed and the model answered it
ModelAnswers ==
  /\ svc = "running"
  /\ response.route = "predict"
  /\ ReachesModel(request, model)
  /\ ~modelOutput.raises

\* the value of one feature of the answered request is in the registry
Seen(col, value) == RegistryCode(col, value) # -1

\* C11: with a fitted registry loaded, a request with a value the registry
\* has not seen is answered by the model with no error; the unseen value is
\* fed with the code of the static map and every seen value of the other
\* features with the code of the registry.
C11_UnseenValueUsesStaticMap ==
  (ModelAnswers /\ label_encoders.keys = FeatureColumns)
  => /\ response.status = 200
     /\ response.model_used
     /\ LET f == response.features
            unseen == \/ ~Seen("procedureType", f.procedure_type)
                      \/ ~Seen("patientType", f.patient_type)
                      \/ ~Seen("dayOfWeek", f.day_of_week)
                      \/ ~Seen("timePeriod", f.time_period)
        IN unseen
           => /\ Seen("procedureType", f.procedure_type)
                 => response.vector[1] = RegistryCode("procedureType", f.procedure_type)
              /\ response.vector[2]
                   = IF Seen("patientType", f.patient_type)
                     THEN RegistryCode("patientType", f.patient_type)
                     ELSE MapGet(encoding_maps.patient_type, f.patient_type, 0)
              /\ response.vector[3]
                   = IF Seen("dayOfWeek", f.day_of_week)
                     THEN RegistryCode("dayOfWeek", f.day_of_week)
                     ELSE MapGet(encoding_maps.day_of_week, f.day_of_week, 0)
              /\ response.vector[4]
                   = IF Seen("timePeriod", f.time_period)
                     THEN RegistryCode("timePeriod", f.time_period)
                     ELSE MapGet(encoding_maps.time_period, f.time_period, 0)

\* C12: while the process runs, model and label_encoders are what load_model
\* made of the file it read at startup, whatever requests were served (those
\* that raised included) and whatever MODEL_PATH holds by now: a process
\* without a model stays without one, a process with a model keeps it.
C12_ModeFixedAtStartup ==
  svc = "running"
  => /\ model = load_model(proc.loaded_from).model
     /\ label_encoders = load_model(proc.loaded_from).label_encoders

\* C12 witness: a process started with no file still has no model after a
\* request raised and a new artifact was published at MODEL_PATH, and
\* answers from the fallback table
C12_Witness ==
  /\ svc = "running"
  /\ proc.loaded_from = Absent
  /\ proc.failed
  /\ modelFile = NewArtifact
  /\ model.isNone
  /\ response.route = "predict"
  /\ response.fallback

\* C13: a load that fails (no file, a file that does not unpickle) or that
\* yields no model leaves the process running without a model; the process
\* has a model exactly when the file gave one; /health answers 200 with
\* model_loaded telling whether there is a model, and /predict keeps
\* answering well-formed requests.
C13_LoadFailureDegrades ==
  svc = "running"
  => /\ proc.loaded_from.kind \in {"absent", "partial"}
        => (~proc.load_ok /\ model.isNone)
     /\ ~model.isNone <=> proc.loaded_from.kind \in {"dict", "bare"}
     /\ response.route = "health"
        => /\ response.status = 200
           /\ response.model_loaded = ~model.isNone
     /\ (model.isNone /\ response.route = "predict" /\ request \in GoodRequests)
        => response.status = 200

\* C13 witness: the file is cut short, load_model returned False, the
\* process runs and /health reports model_loaded false
C13_Witness ==
  /\ svc = "running"
  /\ proc.loaded_from = Partial
  /\ ~proc.load_ok
  /\ response.route = "health"
  /\ response.status = 200
  /\ ~response.model_loaded

\* the duration of the fallback table for the procedure types of the
\* requests, in minutes
TableDuration ==
  [p \in Procedures |->
     CASE p = "Cleaning" -> 35
       [] p = "extraction" -> 25
       [] p = "Root Canal" -> 60
       [] p = "checkup crown" -> 45
       [] p = "whitening" -> 60
       [] p = "filling" -> 30
       [] p = "checkup" -> 20]

\* C14: without a model, a request with a procedure_type string and a
\* patient_type is answered 200 with confidence low, model_used false,
\* fallback true and the duration of the first keyword of the table that
\* occurs in the lowercased procedure type, 60 when none does.
C14_DegradedFallbackTable ==
  ( /\ svc = "running"
    /\ model.isNone
    /\ response.route = "predict"
    /\ request.body = "json"
    /\ request.has_procedure_type
    /\ request.has_patient_type
    /\ request.procedure_type_is_str )
  => /\ response.status = 200
     /\ response.confidence = "low"
     /\ ~response.model_used
     /\ response.fallback
     /\ response.vector = <<>>
     /\ response.duration = Minutes(TableDuration[request.procedure_type])

\* C14 witness: "checkup crown" holds two keywords and gets the duration of
\* crown, the earlier one in the table
C14_Witness ==
  /\ svc = "running"
  /\ model.isNone
  /\ response.route = "predict"
  /\ request.procedure_type = "checkup crown"
  /\ response.fallback
  /\ response.duration = Minutes(45)

\* C15 as stated: a request answered by the model carries exactly the raw
\* output clamped into [10, 180], confidence high and model_used true.
C15_DurationIsClampedOutput ==
  ModelAnswers
  => /\ response.status = 200
     /\ response.confidence = "high"
     /\ response.model_used
     /\ response.duration
          = (IF modelOutput.prediction < Minutes(10) THEN Minutes(10)
             ELSE IF modelOutput.prediction > Minutes(180) THEN Minutes(180)
             ELSE modelOutput.prediction)

\* C15 amended: the duration is the clamped raw output rounded to one
\* decimal: a whole number of tenths within [10, 180], at most 0.05 away from
\* the clamped output, 10 for an output below 10 and 180 for one above 180.
C15_DurationIsRoundedClampedOutput ==
  ModelAnswers
  => /\ response.status = 200
     /\ response.confidence = "high"
     /\ response.model_used
     /\ response.duration % 10 = 0
     /\ response.duration >= Minutes(10)
     /\ response.duration <= Minutes(180)
     /\ modelOutput.prediction < Minutes(10) => response.duration = Minutes(10)
     /\ modelOutput.prediction > Minutes(180) => response.duration = Minutes(180)
     /\ (modelOutput.prediction >= Minutes(10) /\ modelOutput.prediction <= Minutes(180))
        => /\ response.duration - modelOutput.prediction <= 5
           /\ modelOutput.prediction - response.duration <= 5

\* C15 witness: a raw output of 300 minutes is answered as 180
C15_Witness ==
  /\ ModelAnswers
  /\ modelOutput.prediction = Minutes(300)
  /\ response.duration = Minutes(180)
  /\ response.confidence = "high"

\* the request sent last raised inside the handler
RequestRaised ==
  \/ request.body # "json"
  \/ (request.has_procedure_type /\ request.has_patient_type
      /\ ~request.procedure_type_is_str)
  \/ (ReachesModel(request, model) /\ modelOutput.raises)

\* C16: a request that raises is answered 500 with a duration of 60.0,
\* confidence low and model_used false, and the process keeps running; every
\* answer of the process is the one the artifact loaded at startup gives for
\* the request, whether or not an earlier request raised.
C16_ExceptionStaysInRequest ==
  response.route = "predict"
  => /\ svc = "running"
     /\ RequestRaised
        => /\ response.status = 500
           /\ response.duration = Minutes(60)
           /\ response.confidence = "low"
           /\ ~response.model_used
     /\ response
          = predict(request, load_model(proc.loaded_from).model,
                    load_model(proc.loaded_from).label_encoders, hashSalt,
                    modelOutput.prediction, modelOutput.raises)

\* C16 witness: after a request of this process raised, a later request is
\* answered by the model
C16_Witness ==
  /\ svc = "running"
  /\ proc.failed
  /\ response.route = "predict"
  /\ response.status = 200
  /\ response.model_used

(***************************************************************************)
(* Properties of get_time_period                                           *)
(***************************************************************************)
\* the hour on the 24-hour clock of a time with a marker
Hour24(hour, marker) ==
  CASE marker = "AM" -> (IF hour = 12 THEN 0 ELSE hour)
    [] marker = "PM" -> (IF hour = 12 THEN 12 ELSE hour + 12)
    [] OTHER -> hour

\* C17: get_time_period gives Afternoon for a string that is not a time;
\* otherwise it takes the hour to the 24-hour clock by the marker, however
\* the marker is spelled and whether or not a space precedes it, and gives
\* Morning for [5,12), Afternoon for [12,17) and Evening for the rest.
C17_TimeBucketing ==
  (call.fn = "get_time_period" /\ call.done)
  => LET t == call.arg
         h == Hour24(t.hour, t.marker)
     IN call.result
          = (IF ~t.parsable THEN "Afternoon"
             ELSE IF h >= 5 /\ h < 12 THEN "Morning"
             ELSE IF h >= 12 /\ h < 17 THEN "Afternoon"
             ELSE "Evening")

(***************************************************************************)
(* Properties of load_csv_file                                             *)
(***************************************************************************)
\* row idx of the file carries no identifier: there is no identifier column,
\* or the row's cell of it is empty
NoIdentifier(file, idx) == ~file.hasId \/ idx \in file.blank

\* C20: a row with no identifier gets the identifier <<source name, row
\* index>>; two loads of a file give the same identifiers; the identifiers
\* given to different rows and to rows of different files differ; and the
\* two loads together deduplicate to exactly one load.
C20_ReingestIdempotent ==
  (call.fn = "load_csv_file" /\ call.done)
  => LET file == call.arg.file
         first == call.result.first
         second == call.result.second
         other == call.result.other
     IN /\ Len(first) = file.rows
        /\ first = second
        /\ \A i \in 0..(file.rows - 1) :
             NoIdentifier(file, i)
             => first[i + 1].appointmentId = <<call.arg.source_name, i>>
        /\ \A i, j \in 0..(file.rows - 1) :
             i # j => first[i + 1].appointmentId # first[j + 1].appointmentId
        /\ \A i \in 1..Len(first), k \in 1..Len(other) :
             first[i].appointmentId # other[k].appointmentId
        /\ call.result.deduplicated = first

(***************************************************************************)
(* Properties of mark_data_as_used                                         *)
(***************************************************************************)
\* how many of the committed batches hold the document
TimesCommitted(id) ==
  Cardinality({ k \in 1..Len(call.commits) : id \in Range(call.commits[k]) })

\* C22: every batch mark_data_as_used commits holds between 1 and 500
\* updates, and when it returns True each of the n documents its query
\* returned is in exactly one committed batch.
C22_BoundedBatches ==
  call.fn = "mark_data_as_used"
  => /\ \A k \in 1..Len(call.commits) :
          /\ Len(call.commits[k]) >= 1
          /\ Len(call.commits[k]) <= BATCH_LIMIT
          /\ Cardinality(Range(call.commits[k])) = Len(call.commits[k])
     /\ call.result = "True"
        => /\ \A i \in 1..Len(call.docs) : TimesCommitted(call.docs[i]) = 1
           /\ \A i \in 1..Len(store) :
                store[i].id \in Range(call.docs) => store[i].usedForTraining

\* C22 witness: the query returned one document more than a batch holds,
\* and the function returned True after a full batch and a batch of one
C22_Witness ==
  /\ call.fn = "mark_data_as_used"
  /\ call.result = "True"
  /\ Len(call.docs) = BATCH_LIMIT + 1
  /\ Len(call.commits) = 2
  /\ Len(call.commits[1]) = BATCH_LIMIT
  /\ Len(call.commits[2]) = 1

C25_MarkOnlyAfterPublish ==
  \A r \in Runs :
    /\ (Ended(r) /\ run[r].result # "True"
          /\ run[r].firebase_status = "True" /\ ~run[r].exportFailed)
       => export_training_data(store, FALSE) = run[r].real_training_data
    /\ (run[r].pc = "gate" /\ run[r].previous.unpublished
          /\ run[r].firebase_status = "True" /\ ~run[r].exportFailed)
       => Range(run[r].previous.real_training_data)
            \subseteq Range(run[r].real_training_data)

\* C25 witness: a run fetched one record fewer than the threshold and
\* skipped, and the run after it has fetched the same records
C25_Witness ==
  /\ run[1].pc = "gate"
  /\ run[1].previous.unpublished
  /\ Len(run[1].previous.real_training_data) = MIN_TRAINING_SAMPLES - 1
  /\ run[1].real_training_data = run[1].previous.real_training_data

(***************************************************************************)
(* Properties of the service started on a legacy file                      *)
(***************************************************************************)
\* the code of the static map for a value of a feature; a feature the map
\* does not list gets the default
StaticCode(feature, value) ==
  IF feature \in DOMAIN encoding_maps
  THEN MapGet(encoding_maps[feature], value, 0)
  ELSE 0

\* the process read a file that holds a bare model
LoadedBare == svc = "running" /\ proc.loaded_from.kind = "bare"

\* C24: a process started on a file that holds only a bare model has that
\* model and an empty registry, and every request the model answers is
\* answered 200 with model_used true and each of its four features fed with
\* the code of the static map.
C24_BareModelUsesStaticMap ==
  LoadedBare
  => /\ proc.load_ok
     /\ ~model.isNone
     /\ model.version = proc.loaded_from.version
     /\ ~label_encoders.isNone
     /\ label_encoders.keys = {}
     /\ ModelAnswers
        => /\ response.status = 200
           /\ response.model_used
           /\ response.vector
                = << StaticCode("procedure_type", response.features.procedure_type),
                     StaticCode("patient_type", response.features.patient_type),
                     StaticCode("day_of_week", response.features.day_of_week),
                     StaticCode("time_period", response.features.time_period) >>

(***************************************************************************)
(* Properties of the export utility                                        *)
(***************************************************************************)
\* C23: when the utility has written a non-empty CSV and ended without an
\* error, every document whose row is in the CSV is flagged usedForTraining
\* in the collection, and the count it printed as marked is the number of
\* rows it exported.
C23_ExportedAreFlagged ==
  (/\ call.fn = "export_utility"
   /\ call.pc = "done"
   /\ call.printed = "marked"
   /\ call.output_file.complete
   /\ Len(call.output_file.rows) > 0)
  => /\ \A i \in 1..Len(store) :
          store[i].id \in Range(call.output_file.rows) => store[i].usedForTraining
     /\ call.count = Len(call.output_file.rows)

====
